---- MODULE Spec2Model ----
(***************************************************************************)
(* Vector-store / embedding-model coordination layer of obsidian-pglite.   *)
(*                                                                         *)
(* The database engine (PGlite + pgvector) and the embedding backend are   *)
(* external collaborators.  They are modelled by what the code relies on:  *)
(*   - DROP TABLE IF EXISTS / CREATE TABLE IF NOT EXISTS on one table,     *)
(*   - INSERT into a VECTOR(N) column, which the engine rejects when the   *)
(*     vector's length is not N or the table is absent,                    *)
(*   - pg_attribute.atttypmod of a VECTOR(N) column, which pgvector sets   *)
(*     to N,                                                               *)
(*   - any query, embedding request or file write may fail.                *)
(* An embedding is abstracted to its length and the text it was made of.   *)
(***************************************************************************)
EXTENDS Integers, Sequences, FiniteSets, TLC

\* ------------------------------------------------------------------ bounds
\* Most rows the table may hold (inserts are disabled beyond it).
MaxRows == 2

\* ------------------------------------------------------- model catalogue
\* Two entries of AVAILABLE_MODELS, with their declared dimensions.
ModelNames == {"all-minilm", "nomic-embed-text"}

ModelDimensions(m) == IF m = "all-minilm" THEN 384 ELSE 768

DimensionValues == {ModelDimensions(m) : m \in ModelNames}

\* The selected model of DEFAULT_SETTINGS.
DefaultModel == "nomic-embed-text"

\* Note texts handed to the insert and search commands.
Contents == {"a", "b"}

\* An absent optional number (undefined): falsy, like 0, in `!x`.
NoDims == 0

\* Lengths an embedding backend may return: the declared one or another.
EmbeddingLengths == DimensionValues

VARIABLES
    model,       \* name of the active embedding model (service.model / settings.selectedModel)
    dimensions,  \* PGliteVectorStore.dimensions of the long-lived store
    ready,       \* plugin.provider.isReady(): a connection is open
    db,          \* the engine's vector table: exists, width, rows, seq
    saved,       \* the table as last dumped to the database file
    op,          \* the operation in flight or last completed, with its locals
    providers,   \* the PGliteProvider objects created so far, each with its database
    provider,    \* plugin.provider: the number of a provider, 0 for null
    vectorStore, \* plugin.vectorStore: its provider (0 for null) and dimensions
    calls        \* the asynchronous calls: position and locals of each

\* One call runs at a time on one connection, described by ready, db and op,
\* or several calls interleave at their awaits over the provider objects,
\* described by providers, provider, vectorStore and calls.
objects == <<providers, provider, vectorStore, calls>>

vars == <<model, dimensions, ready, db, saved, op, objects>>

\* ------------------------------------------------------------ the engine
AbsentTable == [exists |-> FALSE, width |-> NoDims, rows |-> <<>>, seq |-> 0]

EmptyTable(n) == [exists |-> TRUE, width |-> n, rows |-> <<>>, seq |-> 0]

\* pgvector stores the declared dimension as the column's atttypmod.
AttTypMod(n) == n

\* DROP TABLE IF EXISTS
DropTableIfExists(d) == AbsentTable

\* CREATE TABLE IF NOT EXISTS ... embedding VECTOR(n)
CreateTableIfNotExists(d, n) == IF d.exists THEN d ELSE EmptyTable(n)

\* Whether INSERT ... VALUES (content, vector) is accepted by the engine.
InsertAccepted(d, vec) == d.exists /\ vec.len = d.width

\* Mutant of InsertRow: the id is the number of the row in its table's first
\* position, whatever the sequence says.
InsertRow_SameId(d, content, vec) ==
    [d EXCEPT !.rows = Append(d.rows, [id |-> 1, content |-> content, embedding |-> vec]),
              !.seq = d.seq + 1]

\* INSERT ... RETURNING id on an accepted row: id is the next SERIAL value.
InsertRow(d, content, vec) ==
    [d EXCEPT !.rows = Append(d.rows, [id |-> d.seq + 1, content |-> content, embedding |-> vec]),
              !.seq = d.seq + 1]

\* SELECT ... embedding <=> $1 AS distance: cosine-style distance between a
\* query vector and a stored one, abstracted to 0 for the same text, 1 otherwise.
Distance(q, v) == IF q.of = v.of THEN 0 ELSE 1

\* --------------------------------------------------- PGliteVectorStore
\* An answer of checkTableExists, or its throw (threw: no answer is returned).
TableInfo(e, n) == [threw |-> FALSE, exists |-> e, dimensions |-> n]

NotReadyThrown == [threw |-> TRUE, exists |-> FALSE, dimensions |-> NoDims]

\* Mutant of checkTableExists: the column's width is not read.
checkTableExists_NoDims(rdy, d, queryFails) ==
    IF ~rdy THEN NotReadyThrown
    ELSE IF queryFails \/ ~d.exists THEN TableInfo(FALSE, NoDims)
    ELSE TableInfo(TRUE, NoDims)

\* Mutant of checkTableExists: a failing catalogue query is thrown on.
checkTableExists_Propagates(rdy, d, queryFails) ==
    IF ~rdy \/ queryFails THEN NotReadyThrown
    ELSE IF ~d.exists THEN TableInfo(FALSE, NoDims)
    ELSE TableInfo(TRUE, AttTypMod(d.width))

\* Mutant of checkTableExists: the readiness test sits inside the try block,
\* so that a store that is not ready answers {exists: false}.
checkTableExists_FallsBackWhenNotReady(rdy, d, queryFails) ==
    IF ~rdy \/ queryFails THEN TableInfo(FALSE, NoDims)
    ELSE IF ~d.exists THEN TableInfo(FALSE, NoDims)
    ELSE TableInfo(TRUE, AttTypMod(d.width))

\* checkTableExists(): throws when the store is not ready; then the two
\* catalogue queries, any failure of which is caught and answered
\* {exists: false}.
checkTableExists(rdy, d, queryFails) ==
    IF ~rdy THEN NotReadyThrown
    ELSE IF queryFails THEN TableInfo(FALSE, NoDims)
    ELSE IF ~d.exists THEN TableInfo(FALSE, NoDims)
    ELSE TableInfo(TRUE, AttTypMod(d.width))

\* Failures createTable can meet: none, its DROP query, its CREATE query.
CreateFailures(force) == IF force THEN {"none", "drop", "create"} ELSE {"none", "create"}

\* Mutant of createTable: a recreated table keeps the width of the table it
\* replaces instead of taking the store's configured dimensions.
createTable_KeepsWidth(rdy, d, dims, force, fail) ==
    LET dropped == IF force /\ fail # "drop" THEN DropTableIfExists(d) ELSE d
        n == IF d.exists THEN d.width ELSE dims
    IN  IF ~rdy THEN [db |-> d, ok |-> FALSE, queries |-> 0, notReady |-> TRUE]
        ELSE IF fail = "none"
        THEN [db |-> CreateTableIfNotExists(dropped, n), ok |-> TRUE,
              queries |-> IF force THEN 2 ELSE 1, notReady |-> FALSE]
        ELSE [db |-> dropped, ok |-> FALSE,
              queries |-> IF force /\ fail = "create" THEN 2 ELSE 1, notReady |-> FALSE]

\* Mutant of createTable: force does not drop the table first.
createTable_NoDrop(rdy, d, dims, force, fail) ==
    IF ~rdy THEN [db |-> d, ok |-> FALSE, queries |-> 0, notReady |-> TRUE]
    ELSE IF fail = "none"
    THEN [db |-> CreateTableIfNotExists(d, dims), ok |-> TRUE, queries |-> 1, notReady |-> FALSE]
    ELSE [db |-> d, ok |-> FALSE, queries |-> 1, notReady |-> FALSE]

\* Mutant of createTable: the table is dropped with DROP TABLE, which the
\* engine rejects when there is no table.
createTable_DropFailsIfAbsent(rdy, d, dims, force, fail) ==
    LET dropped == IF force /\ fail # "drop" THEN DropTableIfExists(d) ELSE d
    IN  IF ~rdy THEN [db |-> d, ok |-> FALSE, queries |-> 0, notReady |-> TRUE]
        ELSE IF force /\ ~d.exists THEN [db |-> d, ok |-> FALSE, queries |-> 1, notReady |-> FALSE]
        ELSE IF fail = "none"
        THEN [db |-> CreateTableIfNotExists(dropped, dims), ok |-> TRUE,
              queries |-> IF force THEN 2 ELSE 1, notReady |-> FALSE]
        ELSE [db |-> dropped, ok |-> FALSE,
              queries |-> IF force /\ fail = "create" THEN 2 ELSE 1, notReady |-> FALSE]

\* Mutant of createTable: a present table of another width than the store's
\* dimensions is replaced even without force.
createTable_ReplacesOtherWidth(rdy, d, dims, force, fail) ==
    LET drop == force \/ (d.exists /\ d.width # dims)
        dropped == IF drop /\ fail # "drop" THEN DropTableIfExists(d) ELSE d
    IN  IF ~rdy THEN [db |-> d, ok |-> FALSE, queries |-> 0, notReady |-> TRUE]
        ELSE IF fail = "none"
        THEN [db |-> CreateTableIfNotExists(dropped, dims), ok |-> TRUE,
              queries |-> IF drop THEN 2 ELSE 1, notReady |-> FALSE]
        ELSE [db |-> dropped, ok |-> FALSE,
              queries |-> IF drop /\ fail = "create" THEN 2 ELSE 1, notReady |-> FALSE]

\* createTable(force): throws when the store is not ready; otherwise the
\* table after the call, whether it returned (ok) or threw, and the number of
\* queries issued.  A failing CREATE leaves the DROP that preceded it done.
createTable(rdy, d, dims, force, fail) ==
    LET dropped == IF force /\ fail # "drop" THEN DropTableIfExists(d) ELSE d
    IN  IF ~rdy THEN [db |-> d, ok |-> FALSE, queries |-> 0, notReady |-> TRUE]
        ELSE IF fail = "none"
        THEN [db |-> CreateTableIfNotExists(dropped, dims), ok |-> TRUE,
              queries |-> IF force THEN 2 ELSE 1, notReady |-> FALSE]
        ELSE [db |-> dropped, ok |-> FALSE,
              queries |-> IF force /\ fail = "create" THEN 2 ELSE 1, notReady |-> FALSE]

\* Mutant of insertVector: the store hands every vector to a column that
\* takes any width.
insertVector_AnyWidth(rdy, d, content, vec, fail) ==
    IF ~rdy THEN [db |-> d, ok |-> FALSE, id |-> 0, queries |-> 0, notReady |-> TRUE]
    ELSE IF ~fail /\ d.exists
    THEN [db |-> InsertRow(d, content, vec), ok |-> TRUE, id |-> d.seq + 1,
          queries |-> 1, notReady |-> FALSE]
    ELSE [db |-> d, ok |-> FALSE, id |-> 0, queries |-> 1, notReady |-> FALSE]

\* Mutant of insertVector: an absent table is created for the vector.
insertVector_CreatesTable(rdy, d, content, vec, fail) ==
    LET t == CreateTableIfNotExists(d, vec.len)
    IN  IF ~rdy THEN [db |-> d, ok |-> FALSE, id |-> 0, queries |-> 0, notReady |-> TRUE]
        ELSE IF ~fail /\ InsertAccepted(t, vec)
        THEN [db |-> InsertRow(t, content, vec), ok |-> TRUE, id |-> t.seq + 1,
              queries |-> 1, notReady |-> FALSE]
        ELSE [db |-> d, ok |-> FALSE, id |-> 0, queries |-> 1, notReady |-> FALSE]

\* insertVector(content, vector): throws when the store is not ready; no
\* validation by the store; the engine rejects a vector of the wrong width,
\* an absent table, or fails otherwise.
insertVector(rdy, d, content, vec, fail) ==
    IF ~rdy THEN [db |-> d, ok |-> FALSE, id |-> 0, queries |-> 0, notReady |-> TRUE]
    ELSE IF ~fail /\ InsertAccepted(d, vec)
    THEN [db |-> InsertRow(d, content, vec), ok |-> TRUE, id |-> d.seq + 1,
          queries |-> 1, notReady |-> FALSE]
    ELSE [db |-> d, ok |-> FALSE, id |-> 0, queries |-> 1, notReady |-> FALSE]

\* Mutant of save: a store that is not ready throws.
save_ThrowsWhenNotReady(rdy, d, file, fail) ==
    IF ~rdy \/ fail THEN [file |-> file, ok |-> FALSE] ELSE [file |-> d, ok |-> TRUE]

\* save(): returns at once when the store is not ready; otherwise
\* provider.save() dumps the data directory and writes the file, and rethrows
\* a failure.
save(rdy, d, file, fail) ==
    IF ~rdy THEN [file |-> file, ok |-> TRUE]
    ELSE IF fail THEN [file |-> file, ok |-> FALSE]
    ELSE [file |-> d, ok |-> TRUE]

\* Mutant of DistanceOrders: the rows come in the order of the table.
DistanceOrders_TableOrder(rows, q) == {[i \in 1..Len(rows) |-> i]}

\* Orders of the row indices that ORDER BY distance may produce (rows at
\* equal distance come in an order the engine chooses).
DistanceOrders(rows, q) ==
    LET n == Len(rows)
    IN  {p \in [1..n -> 1..n] :
            /\ \A i, j \in 1..n : i # j => p[i] # p[j]
            /\ \A i, j \in 1..n : i < j => Distance(q, rows[p[i]].embedding) <= Distance(q, rows[p[j]].embedding)}

Min(a, b) == IF a <= b THEN a ELSE b

\* Whether the engine runs the similarity query: the table must exist, and
\* `<=>` fails on the first stored vector whose width is not the query's.
SearchAccepted(d, q) == d.exists /\ \A i \in 1..Len(d.rows) : d.rows[i].embedding.len = q.len

\* searchSimilar(vector, limit): the result sets the query may return on a
\* present table.
searchSimilar(d, q, limit) ==
    {[i \in 1..Min(limit, Len(d.rows)) |->
        [id |-> d.rows[p[i]].id, content |-> d.rows[p[i]].content,
         distance |-> Distance(q, d.rows[p[i]].embedding)]] : p \in DistanceOrders(d.rows, q)}

\* The limit parameter when the caller leaves it out (limit?: number).
NoLimit == 0

\* limit: number = 5
DefaultLimit == 5

LimitOrDefault(l) == IF l = NoLimit THEN DefaultLimit ELSE l

\* Mutant of searchSimilarOutcomes: a store that is not ready answers no rows.
searchSimilarOutcomes_EmptyWhenNotReady(rdy, d, q, l) ==
    IF ~rdy THEN {[ok |-> TRUE, rows |-> <<>>, queries |-> 0, notReady |-> FALSE]}
    ELSE IF ~SearchAccepted(d, q)
    THEN {[ok |-> FALSE, rows |-> <<>>, queries |-> 1, notReady |-> FALSE]}
    ELSE {[ok |-> TRUE, rows |-> r, queries |-> 1, notReady |-> FALSE] :
            r \in searchSimilar(d, q, LimitOrDefault(l))}

\* The ways a call searchSimilar(vector, limit) can end: it throws when the
\* store is not ready or the engine rejects the query, and returns the
\* query's rows otherwise.
searchSimilarOutcomes(rdy, d, q, l) ==
    IF ~rdy THEN {[ok |-> FALSE, rows |-> <<>>, queries |-> 0, notReady |-> TRUE]}
    ELSE IF ~SearchAccepted(d, q)
    THEN {[ok |-> FALSE, rows |-> <<>>, queries |-> 1, notReady |-> FALSE]}
    ELSE {[ok |-> TRUE, rows |-> r, queries |-> 1, notReady |-> FALSE] :
            r \in searchSimilar(d, q, LimitOrDefault(l))}

\* ------------------------------------------- VectorHelpers / VectorService
\* Mutant of checkTableCompatibility: the dimensions are compared even when
\* there is no table or no discoverable dimension.
checkTableCompatibility_AlwaysCompares(tableInfo, modelDims) ==
    [threw |-> tableInfo.threw,
     compatible |-> tableInfo.threw \/ tableInfo.dimensions = modelDims,
     tableDimensions |-> tableInfo.dimensions,
     modelDimensions |-> IF tableInfo.threw THEN NoDims ELSE modelDims]

\* An answer of checkTableCompatibility.
Compat(c, t, m) == [threw |-> FALSE, compatible |-> c, tableDimensions |-> t, modelDimensions |-> m]

\* checkTableCompatibility(model, store) on the answer of checkTableExists,
\* whose throw it lets through.
checkTableCompatibility(tableInfo, modelDims) ==
    IF tableInfo.threw THEN [threw |-> TRUE, compatible |-> TRUE,
                             tableDimensions |-> NoDims, modelDimensions |-> NoDims]
    ELSE IF ~tableInfo.exists \/ tableInfo.dimensions = NoDims
    THEN Compat(TRUE, NoDims, modelDims)
    ELSE Compat(tableInfo.dimensions = modelDims, tableInfo.dimensions, modelDims)

\* Mutant of ChangeReport: oldDimensions is always given.
ChangeReport_OldAlways(oldDims, newDims) ==
    [dimensionsChanged |-> oldDims # newDims,
     oldDimensions |-> oldDims,
     newDimensions |-> newDims]

\* The report of changeModel / changeEmbeddingModel.
ChangeReport(oldDims, newDims) ==
    [dimensionsChanged |-> oldDims # newDims,
     oldDimensions |-> IF oldDims # newDims THEN oldDims ELSE NoDims,
     newDimensions |-> newDims]

\* BaseCommand.createEmbeddingModel(): the model selected in the settings.
createEmbeddingModel == model

\* BaseCommand.createVectorStore(): a store sized to the selected model.
createVectorStore == ModelDimensions(model)

\* ------------------------------------------------------ operation record
\* fault, in the operation record below, tells that the embedding backend,
\* the engine or the file system failed on its own account during the
\* insertion (not by rejecting what it was handed).
NoVec == [len |-> NoDims, of |-> ""]

NoCompat == Compat(TRUE, NoDims, NoDims)

\* A fresh record for the operation `name`, taken at its start: its locals
\* are unset, and `pre` keeps the state it started from; `notice` tells whether
\* the persistent progress notice of a command is on the screen.
NewOp(name) ==
    [name |-> name, pc |-> "done", outcome |-> "ok",
     content |-> "", m |-> model, sdims |-> dimensions, force |-> FALSE,
     pre |-> [db |-> db, saved |-> saved, model |-> model, dimensions |-> dimensions,
              ready |-> ready],
     trace |-> <<>>, modals |-> 0, stale |-> FALSE,
     vec |-> NoVec, id |-> 0, compat |-> NoCompat, qfail |-> FALSE,
     info |-> TableInfo(FALSE, NoDims), notReady |-> FALSE, caught |-> FALSE, fault |-> FALSE,
     limit |-> NoLimit, notice |-> FALSE,
     report |-> ChangeReport(NoDims, NoDims), results |-> <<>>, shown |-> <<>>,
     provider |-> "", config |-> [baseURL |-> "", apiKey |-> ""],
     resolved |-> [ok |-> TRUE, config |-> [baseURL |-> "", apiKey |-> ""], errors |-> <<>>]]

\* No call is in flight and the last one has returned to the event loop.
Idle == op.pc = "done" /\ op.name = "none"

Log(o, ev) == [o EXCEPT !.trace = Append(o.trace, ev)]

Has(tr, ev) == \E i \in 1..Len(tr) : tr[i] = ev

LastEvent(tr) == IF tr = <<>> THEN "" ELSE tr[Len(tr)]

Finish(o, outcome) == [o EXCEPT !.pc = "done", !.outcome = outcome]

\* The call ends by an error thrown to its caller, or caught and shown by the
\* command; notReady tells the not-ready error from the others.
Throw(o, notReady) == [Finish(o, "error") EXCEPT !.notReady = notReady]

Init ==
    /\ model = DefaultModel
    /\ dimensions = ModelDimensions(DefaultModel)
    /\ ready = FALSE
    /\ db = AbsentTable
    /\ saved = AbsentTable
    /\ op = NewOp("none")
    /\ providers = <<>>
    /\ provider = 0
    /\ vectorStore = [p |-> 0, dimensions |-> NoDims]
    /\ calls = <<>>

\* The call that has ended returns to the event loop: its locals are gone.
Return ==
    /\ op.pc = "done" /\ op.name # "none"
    /\ op' = NewOp("none")
    /\ UNCHANGED <<model, dimensions, ready, db, saved, objects>>

\* ------------------------------------------------------ provider lifecycle
\* Failures initialize() can meet: none, loading the resources or creating the
\* instance, or making the directory once the instance is up.
InitFailures == {"none", "load", "mkdir"}

\* PGliteProvider.initialize() on a fresh provider: the instance is created
\* from the database file when there is one; isInitialized is set before the
\* directory is looked at.
initialize(file, fail) ==
    IF fail = "load" THEN [ready |-> FALSE, db |-> AbsentTable, ok |-> FALSE]
    ELSE [ready |-> TRUE, db |-> file, ok |-> fail = "none"]

\* Mutant of close: the database is not saved before the client is closed.
close_NoSave(rdy, d, file, saveFails, closeFails) ==
    IF ~rdy THEN [ready |-> FALSE, db |-> d, file |-> file, caught |-> FALSE]
    ELSE IF saveFails \/ closeFails THEN [ready |-> TRUE, db |-> d, file |-> file, caught |-> TRUE]
    ELSE [ready |-> FALSE, db |-> AbsentTable, file |-> file, caught |-> FALSE]

\* PGliteProvider.close(): nothing without a client; otherwise save, close the
\* client and release it, any failure being caught and logged, which leaves
\* the client open.
close(rdy, d, file, saveFails, closeFails) ==
    IF ~rdy THEN [ready |-> FALSE, db |-> d, file |-> file, caught |-> FALSE]
    ELSE IF saveFails THEN [ready |-> TRUE, db |-> d, file |-> file, caught |-> TRUE]
    ELSE IF closeFails THEN [ready |-> TRUE, db |-> d, file |-> d, caught |-> TRUE]
    ELSE [ready |-> FALSE, db |-> AbsentTable, file |-> d, caught |-> FALSE]

\* PGLitePlugin.initializePGlite(), from onload or while no connection is
\* open: a failure is caught and shown.
InitializePGlite(fail) ==
    /\ Idle /\ ~ready
    /\ LET r == initialize(saved, fail)
           o == NewOp("initializePGlite")
       IN  /\ ready' = r.ready
           /\ db' = r.db
           /\ op' = IF r.ok THEN Log(o, "initialize") ELSE Throw(Log(o, "initialize!"), FALSE)
    /\ UNCHANGED <<model, dimensions, saved, objects>>

\* PGliteProvider.close(), as called by onunload
Close(saveFails, closeFails) ==
    /\ Idle
    /\ LET r == close(ready, db, saved, saveFails, closeFails)
           o == NewOp("close")
       IN  /\ ready' = r.ready
           /\ db' = r.db
           /\ saved' = r.file
           /\ op' = [Log(o, IF r.caught THEN "close!" ELSE "close") EXCEPT !.caught = r.caught]
    /\ UNCHANGED <<model, dimensions, objects>>

\* PGLitePlugin.saveSettings(true), up to its await of provider.close()
StartSaveSettings ==
    /\ Idle
    /\ op' = [NewOp("saveSettings") EXCEPT !.pc = "close"]
    /\ UNCHANGED <<model, dimensions, ready, db, saved, objects>>

\* await this.provider.close()
CloseStep(saveFails, closeFails) ==
    /\ op.pc = "close"
    /\ LET r == close(ready, db, saved, saveFails, closeFails)
       IN  /\ ready' = r.ready
           /\ db' = r.db
           /\ saved' = r.file
           /\ op' = [Log(op, IF r.caught THEN "close!" ELSE "close") EXCEPT
                        !.pc = "init", !.caught = r.caught]
    /\ UNCHANGED <<model, dimensions, objects>>

\* await this.initializePGlite(): a new provider replaces the old one,
\* closed or not.
InitStep(fail) ==
    /\ op.pc = "init"
    /\ LET r == initialize(saved, fail)
       IN  /\ ready' = r.ready
           /\ db' = r.db
           /\ op' = IF r.ok THEN Finish(Log(op, "initialize"), "ok")
                    ELSE Throw(Log(op, "initialize!"), FALSE)
    /\ UNCHANGED <<model, dimensions, saved, objects>>

\* ------------------------------------------- store and service operations
\* PGliteVectorStore.setDimensions(n)
SetDimensions(n) ==
    /\ Idle
    /\ dimensions' = n
    /\ op' = Log(NewOp("setDimensions"), "setDimensions")
    /\ UNCHANGED <<model, ready, db, saved, objects>>

\* Mutant of changeModel: the table is recreated at the new dimensions.
changeModel_Recreates(newModel) ==
    /\ Idle
    /\ model' = newModel
    /\ dimensions' = ModelDimensions(newModel)
    /\ db' = IF ready THEN EmptyTable(ModelDimensions(newModel)) ELSE db
    /\ op' = [Log(NewOp("changeModel"), "setDimensions") EXCEPT
                !.m = newModel,
                !.report = ChangeReport(ModelDimensions(model), ModelDimensions(newModel))]
    /\ UNCHANGED <<ready, saved, objects>>

\* VectorService.changeModel(newModel)
changeModel(newModel) ==
    /\ Idle
    /\ model' = newModel
    /\ dimensions' = ModelDimensions(newModel)
    /\ op' = [Log(NewOp("changeModel"), "setDimensions") EXCEPT
                !.m = newModel,
                !.report = ChangeReport(ModelDimensions(model), ModelDimensions(newModel))]
    /\ UNCHANGED <<ready, db, saved, objects>>

\* changeEmbeddingModel(currentModel, newModel, store): updates the store
\* only; the caller holds the model reference.
changeEmbeddingModel(newModel) ==
    /\ Idle
    /\ dimensions' = ModelDimensions(newModel)
    /\ op' = [Log(NewOp("changeEmbeddingModel"), "setDimensions") EXCEPT
                !.m = newModel,
                !.report = ChangeReport(ModelDimensions(model), ModelDimensions(newModel))]
    /\ UNCHANGED <<model, ready, db, saved, objects>>

\* PGliteVectorStore.checkTableExists() on the long-lived store
CheckTableExists(queryFails) ==
    /\ Idle
    /\ LET r == checkTableExists(ready, db, queryFails)
           o == [NewOp("checkTableExists") EXCEPT !.info = r, !.qfail = queryFails]
       IN  op' = IF r.threw THEN Throw(Log(o, "checkTableExists!"), TRUE)
                 ELSE Log(o, "checkTableExists")
    /\ UNCHANGED <<model, dimensions, ready, db, saved, objects>>

\* PGliteVectorStore.createTable(force) on the long-lived store
CreateTable(force, fail) ==
    /\ Idle
    /\ fail \in CreateFailures(force)
    /\ LET r == createTable(ready, db, dimensions, force, fail)
           o == [NewOp("createTable") EXCEPT !.force = force]
       IN  /\ db' = r.db
           /\ op' = IF r.ok THEN Log(o, "createTable")
                    ELSE Throw(Log(o, "createTable!"), r.notReady)
    /\ UNCHANGED <<model, dimensions, ready, saved, objects>>

\* PGliteVectorStore.save() on the long-lived store
Save(fail) ==
    /\ Idle
    /\ LET r == save(ready, db, saved, fail)
           o == NewOp("save")
       IN  /\ saved' = r.file
           /\ op' = IF r.ok THEN Log(o, "save") ELSE Throw(Log(o, "save!"), FALSE)
    /\ UNCHANGED <<model, dimensions, ready, db, objects>>

\* VectorService.checkTableCompatibility()
CheckCompatibility(queryFails) ==
    /\ Idle
    /\ LET c == checkTableCompatibility(checkTableExists(ready, db, queryFails),
                                        ModelDimensions(model))
           o == [NewOp("checkCompatibility") EXCEPT !.qfail = queryFails, !.compat = c]
       IN  op' = IF c.threw THEN Throw(Log(o, "checkCompatibility!"), TRUE)
                 ELSE Log(o, "checkCompatibility")
    /\ UNCHANGED <<model, dimensions, ready, db, saved, objects>>

\* PGliteVectorStore.searchSimilar(vector, limit) on the long-lived store
SearchSimilar(q, l) ==
    /\ Idle
    /\ \E r \in searchSimilarOutcomes(ready, db, q, l) :
         LET o == [NewOp("searchSimilar") EXCEPT !.vec = q, !.limit = l, !.results = r.rows]
         IN  op' = IF r.ok THEN Log(o, "searchSimilar")
                   ELSE Throw(Log(o, "searchSimilar!"), r.notReady)
    /\ UNCHANGED <<model, dimensions, ready, db, saved, objects>>

\* ---------------------------------------------------------- insert flow
\* Mutant of recreateVectorTable: the table is created without force.
recreateVectorTable_NoForce(rdy, d, dims, fail) ==
    createTable(rdy, d, dims, FALSE, IF fail = "drop" THEN "none" ELSE fail)

\* recreateVectorTable(store), first await: store.createTable(true)
recreateVectorTable(rdy, d, dims, fail) == createTable(rdy, d, dims, TRUE, fail)

\* InsertNoteAsVectorCommand.execute(editor), up to its first await: the
\* model and the store are created on demand.
ExecuteInsertNote(o, content) ==
    [o EXCEPT !.pc = "check", !.content = content, !.notice = TRUE,
              !.m = createEmbeddingModel, !.sdims = createVectorStore]

StartInsertNote(content) ==
    /\ Idle
    /\ Len(db.rows) < MaxRows
    /\ op' = ExecuteInsertNote(NewOp("insertNote"), content)
    /\ UNCHANGED <<model, dimensions, ready, db, saved, objects>>

\* Mutant of CheckStep: the incompatible answer does not gate the insertion.
CheckStep_NoGate(queryFails) ==
    /\ op.pc = "check"
    /\ LET c == checkTableCompatibility(checkTableExists(ready, db, queryFails),
                                        ModelDimensions(op.m))
       IN  op' = [Log(op, "checkCompatibility") EXCEPT
                    !.compat = c, !.qfail = queryFails, !.pc = "embed"]
    /\ UNCHANGED <<model, dimensions, ready, db, saved, objects>>

\* await checkTableCompatibility(model, store); its throw is caught and shown;
\* an incompatible answer opens the confirmation modal and returns.
CheckStep(queryFails) ==
    /\ op.pc = "check"
    /\ LET c == checkTableCompatibility(checkTableExists(ready, db, queryFails),
                                        ModelDimensions(op.m))
           o == [Log(op, "checkCompatibility") EXCEPT !.compat = c, !.qfail = queryFails]
       IN  op' = IF c.threw
                 THEN Throw([op EXCEPT !.trace = Append(op.trace, "checkCompatibility!"),
                                       !.compat = c], TRUE)
                 ELSE IF ~c.compatible
                 THEN [Log(o, "modal") EXCEPT !.pc = "modal", !.modals = o.modals + 1,
                                              !.notice = FALSE]
                 ELSE [o EXCEPT !.pc = "embed"]
    /\ UNCHANGED <<model, dimensions, ready, db, saved, objects>>

\* The modal's Cancel button: onConfirm(false)
ModalCancel ==
    /\ op.pc = "modal"
    /\ op' = Finish(Log(op, "cancel"), "cancelled")
    /\ UNCHANGED <<model, dimensions, ready, db, saved, objects>>

\* The modal's Proceed button: onConfirm(true)
ModalProceed ==
    /\ op.pc = "modal"
    /\ op' = [Log(op, "proceed") EXCEPT !.pc = "recreate"]
    /\ UNCHANGED <<model, dimensions, ready, db, saved, objects>>

\* CreateVectorTableCommand.execute(), up to its first await
StartCreateVectorTable ==
    /\ Idle
    /\ op' = [NewOp("createVectorTable") EXCEPT !.pc = "recreate", !.sdims = createVectorStore,
                                                !.force = TRUE]
    /\ UNCHANGED <<model, dimensions, ready, db, saved, objects>>

\* How a throw ends the step: in the confirmation callback it is a rejection
\* nobody handles, in a command it is caught and shown.
ThrowIn(o, notReady) ==
    IF o.name = "insertNote" /\ Has(o.trace, "proceed") /\ o.pc \in {"recreate", "resave"}
    THEN [Finish(o, "unhandled") EXCEPT !.notReady = notReady]
    ELSE Throw(o, notReady)

\* await store.createTable(true), in the confirmation callback or in the
\* create-vector-table command.
RecreateStep(fail) ==
    /\ op.pc = "recreate"
    /\ fail \in CreateFailures(TRUE)
    /\ LET r == IF op.name = "insertNote"
                THEN recreateVectorTable(ready, db, op.sdims, fail)
                ELSE createTable(ready, db, op.sdims, TRUE, fail)
       IN  /\ db' = r.db
           /\ op' = IF r.ok
                    THEN [Log(op, "createTable") EXCEPT !.pc = "resave"]
                    ELSE ThrowIn(Log(op, "createTable!"), r.notReady)
    /\ UNCHANGED <<model, dimensions, ready, saved, objects>>

\* await store.save() after the recreation; the callback then calls
\* execute(editor) again.
ResaveStep(fail) ==
    /\ op.pc = "resave"
    /\ LET r == save(ready, db, saved, fail)
       IN  /\ saved' = r.file
           /\ op' = IF ~r.ok
                    THEN ThrowIn(Log(op, "save!"), FALSE)
                    ELSE IF op.name = "insertNote"
                    THEN ExecuteInsertNote(Log(op, "save"), op.content)
                    ELSE Finish(Log(op, "save"), "ok")
    /\ UNCHANGED <<model, dimensions, ready, db, objects>>

\* VectorService.insertContent(content), up to its first await
StartInsertContent(content) ==
    /\ Idle
    /\ Len(db.rows) < MaxRows
    /\ op' = [NewOp("insertContent") EXCEPT !.pc = "embed", !.content = content]
    /\ UNCHANGED <<model, dimensions, ready, db, saved, objects>>

\* Mutant of EmbedStep: a failed embedding request does not end the call.
EmbedStep_ContinuesAfterFailure(len, fail) ==
    /\ op.pc = "embed"
    /\ op' = [Log(op, IF fail THEN "generateEmbedding!" ELSE "generateEmbedding") EXCEPT
                !.pc = "insert", !.vec = [len |-> len, of |-> op.content], !.fault = fail]
    /\ UNCHANGED <<model, dimensions, ready, db, saved, objects>>

\* Mutant of EmbedStep: a vector of another length than declared is an error.
EmbedStep_RejectsWrongLength(len, fail) ==
    /\ op.pc = "embed"
    /\ op' = IF fail \/ len # ModelDimensions(op.m)
             THEN [Throw(Log(op, "generateEmbedding!"), FALSE) EXCEPT !.fault = fail]
             ELSE [Log(op, "generateEmbedding") EXCEPT
                     !.pc = "insert", !.vec = [len |-> len, of |-> op.content]]
    /\ UNCHANGED <<model, dimensions, ready, db, saved, objects>>

\* await model.generateEmbedding(content): the backend fails, or returns a
\* vector of some length (a length other than declared only warns).
EmbedStep(len, fail) ==
    /\ op.pc = "embed"
    /\ op' = IF fail
             THEN [Throw(Log(op, "generateEmbedding!"), FALSE) EXCEPT !.fault = TRUE]
             ELSE [Log(op, "generateEmbedding") EXCEPT
                     !.pc = "insert", !.vec = [len |-> len, of |-> op.content]]
    /\ UNCHANGED <<model, dimensions, ready, db, saved, objects>>

\* await store.insertVector(content, vector)
InsertStep(fail) ==
    /\ op.pc = "insert"
    /\ LET r == insertVector(ready, db, op.content, op.vec, fail)
           o == [op EXCEPT !.stale = ready /\ db.exists /\ db.width # ModelDimensions(model),
                           !.fault = fail]
       IN  /\ db' = r.db
           /\ op' = IF r.ok
                    THEN [Log(o, "insertVector") EXCEPT !.pc = "save", !.id = r.id]
                    ELSE Throw(Log(o, "insertVector!"), r.notReady)
    /\ UNCHANGED <<model, dimensions, ready, saved, objects>>

\* await store.save(); return id
SaveStep(fail) ==
    /\ op.pc = "save"
    /\ LET r == save(ready, db, saved, fail)
       IN  /\ saved' = r.file
           /\ op' = IF r.ok
                    THEN Finish([Log(Log(op, "save"), "return") EXCEPT !.notice = FALSE], "ok")
                    ELSE [Throw(Log(op, "save!"), FALSE) EXCEPT !.fault = TRUE]
    /\ UNCHANGED <<model, dimensions, ready, db, objects>>

\* ---------------------------------------------------------- search flow
\* SearchSimilarToNoteCommand.execute(editor, limit), up to its first await
StartSearchNote(content, l) ==
    /\ Idle
    /\ op' = [NewOp("searchNote") EXCEPT !.pc = "exists", !.content = content, !.limit = l,
                                         !.sdims = createVectorStore, !.notice = TRUE]
    /\ UNCHANGED <<model, dimensions, ready, db, saved, objects>>

\* await vectorStore.checkTableExists(): without a table the command shows
\* 'Vector table does not exist. Please create it first.' and returns.
ExistsStep(queryFails) ==
    /\ op.pc = "exists"
    /\ LET r == checkTableExists(ready, db, queryFails)
           o == [op EXCEPT !.info = r, !.qfail = queryFails]
       IN  op' = IF r.threw THEN Throw(Log(o, "checkTableExists!"), TRUE)
                 ELSE IF ~r.exists
                 THEN Finish([Log(o, "checkTableExists") EXCEPT !.notice = FALSE], "noTable")
                 ELSE [Log(o, "checkTableExists") EXCEPT
                         !.pc = "searchEmbed", !.m = createEmbeddingModel]
    /\ UNCHANGED <<model, dimensions, ready, db, saved, objects>>

\* VectorService.searchSimilar(content, limit), up to its first await
StartSearchContent(content, l) ==
    /\ Idle
    /\ op' = [NewOp("searchContent") EXCEPT !.pc = "searchEmbed", !.content = content,
                                            !.limit = l]
    /\ UNCHANGED <<model, dimensions, ready, db, saved, objects>>

\* await model.generateEmbedding(content) in searchSimilarContent /
\* VectorService.searchSimilar
SearchEmbedStep(len, fail) ==
    /\ op.pc = "searchEmbed"
    /\ op' = IF fail
             THEN Throw(Log(op, "generateEmbedding!"), FALSE)
             ELSE [Log(op, "generateEmbedding") EXCEPT
                     !.pc = "query", !.vec = [len |-> len, of |-> op.content]]
    /\ UNCHANGED <<model, dimensions, ready, db, saved, objects>>

\* Mutant of Similarity: the distance itself is shown as the percentage.
Similarity_Distance(distance) == distance * 100

\* ResultsModal.onOpen, the cell of the distance column of a vector search:
\* (1 - distance) * 100, shown as a percentage.
Similarity(distance) == (1 - distance) * 100

\* ResultsModal.onOpen: one table row per result, in the order of the results.
ResultsModal(results) ==
    [i \in 1..Len(results) |->
        [id |-> results[i].id, content |-> results[i].content,
         similarity |-> Similarity(results[i].distance)]]

\* Mutant of QueryStep: the search saves the database after its query.
QueryStep_Saves ==
    /\ op.pc = "query"
    /\ \E r \in searchSimilarOutcomes(ready, db, op.vec, op.limit) :
         /\ op' = IF r.ok
                  THEN Finish([Log(op, "searchSimilar") EXCEPT
                                 !.results = r.rows, !.notice = FALSE,
                                 !.shown = IF op.name = "searchNote" THEN ResultsModal(r.rows)
                                           ELSE <<>>], "ok")
                  ELSE Throw(Log(op, "searchSimilar!"), r.notReady)
         /\ saved' = IF r.ok THEN db ELSE saved
    /\ UNCHANGED <<model, dimensions, ready, db, objects>>

\* return store.searchSimilar(vector, limit); the command then opens the
\* ResultsModal on the rows.
QueryStep ==
    /\ op.pc = "query"
    /\ \E r \in searchSimilarOutcomes(ready, db, op.vec, op.limit) :
         op' = IF r.ok
               THEN Finish([Log(op, "searchSimilar") EXCEPT
                              !.results = r.rows, !.notice = FALSE,
                              !.shown = IF op.name = "searchNote" THEN ResultsModal(r.rows)
                                        ELSE <<>>], "ok")
               ELSE Throw(Log(op, "searchSimilar!"), r.notReady)
    /\ UNCHANGED <<model, dimensions, ready, db, saved, objects>>

\* ------------------------------------------------ provider configuration
\* EmbeddingProvider
Providers == {"ollama", "openai"}

\* Values of the baseURL field: none or empty, a text that is no URL, a URL.
BaseURLs == {"", "not a url", "http://localhost:11434/api"}

\* Values of the apiKey field: none or empty, a key.
ApiKeys == {"", "sk-key"}

\* ModelConfig: the settings of one provider.
ModelConfigs == [baseURL : BaseURLs, apiKey : ApiKeys]

NoConfig == [baseURL |-> "", apiKey |-> ""]

\* new URL(text) returns (rather than throws) for an absolute URL only.
ParsesAsURL(text) == text = "http://localhost:11434/api"

\* providerRegistry[provider].requiredFields / optionalFields
RequiredFields(prov) == IF prov = "ollama" THEN <<"baseURL">> ELSE <<"apiKey">>

OptionalFields(prov) == IF prov = "ollama" THEN <<>> ELSE <<"baseURL">>

\* MODEL_FIELD_METADATA[field].name
FieldName(field) == IF field = "baseURL" THEN "Base URL" ELSE "API Key"

\* The messages of the fields, taken in order, that the test picks out.
RECURSIVE ErrorsOf(_, _, _)
ErrorsOf(fields, config, kind) ==
    IF fields = <<>> THEN <<>>
    ELSE LET f == Head(fields)
             hit == IF kind = "required" THEN config[f] = ""
                    ELSE f = "baseURL" /\ config[f] # "" /\ ~ParsesAsURL(config[f])
             msg == IF kind = "required" THEN <<FieldName(f), "is required">>
                    ELSE <<FieldName(f), "Please enter a valid URL">>
         IN  (IF hit THEN <<msg>> ELSE <<>>) \o ErrorsOf(Tail(fields), config, kind)

\* validateProviderConfig(provider, config): the list of errors, those of the
\* required fields first, then those of the URL fields.
validateProviderConfig(prov, config) ==
    ErrorsOf(RequiredFields(prov), config, "required")
        \o ErrorsOf(RequiredFields(prov) \o OptionalFields(prov), config, "url")

\* getConfigForModel(settings, modelInfo) of models/EmbeddingModel.ts: throws
\* when validateProviderConfig finds an error, returns the provider's
\* configuration otherwise.
getConfigForModel(prov, config) ==
    LET errors == validateProviderConfig(prov, config)
    IN  [ok |-> errors = <<>>, config |-> IF errors = <<>> THEN config ELSE NoConfig,
         errors |-> errors]

\* getConfigForModel(settings, modelInfo) of utils/EmbeddingHelpers.ts: the
\* Ollama settings are returned as they are, the OpenAI settings when the API
\* key is not empty.
helpersGetConfigForModel(prov, config) ==
    IF prov = "ollama" THEN [ok |-> TRUE, config |-> config, errors |-> <<>>]
    ELSE IF config.apiKey = ""
    THEN [ok |-> FALSE, config |-> NoConfig,
          errors |-> <<<<"OpenAI API key", "is required for OpenAI models">>>>]
    ELSE [ok |-> TRUE, config |-> config, errors |-> <<>>]

\* A call of getConfigForModel, of either file, for a model of the provider.
GetConfigForModel(prov, config, helpers) ==
    /\ Idle
    /\ LET r == IF helpers THEN helpersGetConfigForModel(prov, config)
                ELSE getConfigForModel(prov, config)
           o == [NewOp(IF helpers THEN "helpersGetConfigForModel" ELSE "getConfigForModel")
                    EXCEPT !.provider = prov, !.config = config, !.resolved = r]
       IN  op' = IF r.ok THEN Log(o, "getConfigForModel")
                 ELSE Throw(Log(o, "getConfigForModel!"), FALSE)
    /\ UNCHANGED <<model, dimensions, ready, db, saved, objects>>

\* ------------------------------------------------------------ bounds
\* Largest limit handed to searchSimilar.
MaxLimit == 2

\* The limits a caller may pass, or none.
Limits == {NoLimit} \cup (1..MaxLimit)

QueryVectors == [len : EmbeddingLengths, of : Contents]

Next ==
    \/ Return
    \/ \E fail \in InitFailures : InitializePGlite(fail)
    \/ \E sf, cf \in BOOLEAN : Close(sf, cf)
    \/ StartSaveSettings
    \/ \E sf, cf \in BOOLEAN : CloseStep(sf, cf)
    \/ \E fail \in InitFailures : InitStep(fail)
    \/ \E n \in DimensionValues : SetDimensions(n)
    \/ \E m \in ModelNames : changeModel(m)
    \/ \E m \in ModelNames : changeEmbeddingModel(m)
    \/ \E f \in BOOLEAN : CheckTableExists(f)
    \/ \E force \in BOOLEAN, fail \in {"none", "drop", "create"} : CreateTable(force, fail)
    \/ \E f \in BOOLEAN : Save(f)
    \/ \E f \in BOOLEAN : CheckCompatibility(f)
    \/ \E q \in QueryVectors, l \in Limits : SearchSimilar(q, l)
    \/ \E c \in Contents : StartInsertNote(c)
    \/ \E f \in BOOLEAN : CheckStep(f)
    \/ ModalCancel
    \/ ModalProceed
    \/ StartCreateVectorTable
    \/ \E fail \in {"none", "drop", "create"} : RecreateStep(fail)
    \/ \E f \in BOOLEAN : ResaveStep(f)
    \/ \E c \in Contents : StartInsertContent(c)
    \/ \E len \in EmbeddingLengths, f \in BOOLEAN : EmbedStep(len, f)
    \/ \E f \in BOOLEAN : InsertStep(f)
    \/ \E f \in BOOLEAN : SaveStep(f)
    \/ \E c \in Contents, l \in Limits : StartSearchNote(c, l)
    \/ \E f \in BOOLEAN : ExistsStep(f)
    \/ \E c \in Contents, l \in Limits : StartSearchContent(c, l)
    \/ \E len \in EmbeddingLengths, f \in BOOLEAN : SearchEmbedStep(len, f)
    \/ QueryStep
    \/ \E p \in Providers, c \in ModelConfigs, h \in BOOLEAN : GetConfigForModel(p, c, h)

Spec == Init /\ [][Next]_vars

\* ------------------------------------------- settings tab: model selection
\* The onChange handler of the Embedding Model dropdown, up to its first
\* await: the selection is written to the settings and saveSettings(true)
\* is entered.
StartSelectModel(newModel) ==
    /\ Idle
    /\ model' = newModel
    /\ op' = [NewOp("selectModel") EXCEPT !.pc = "close1", !.m = newModel]
    /\ UNCHANGED <<dimensions, ready, db, saved, objects>>

\* await this.provider.close() of either saveSettings(true) of the handler
SelectCloseStep(saveFails, closeFails) ==
    /\ op.name = "selectModel" /\ op.pc \in {"close1", "close2"}
    /\ LET r == close(ready, db, saved, saveFails, closeFails)
       IN  /\ ready' = r.ready
           /\ db' = r.db
           /\ saved' = r.file
           /\ op' = [op EXCEPT !.pc = IF op.pc = "close1" THEN "init1" ELSE "init2",
                               !.caught = op.caught \/ r.caught]
    /\ UNCHANGED <<model, dimensions, objects>>

\* await this.initializePGlite() of either saveSettings(true); after the
\* second the handler shows 'Updated embedding model' and returns.
SelectInitStep(fail) ==
    /\ op.name = "selectModel" /\ op.pc \in {"init1", "init2"}
    /\ LET r == initialize(saved, fail)
       IN  /\ ready' = r.ready
           /\ db' = r.db
           /\ op' = IF op.pc = "init1" THEN [op EXCEPT !.pc = "compare"]
                    ELSE Finish(Log(op, "notice"), "ok")
    /\ UNCHANGED <<model, dimensions, saved, objects>>

\* The comparison of the handler: currentDimensions is read from the model
\* that the settings name now.  When they differ from the new model's the
\* confirmation modal is opened (the table is recreated by its callback, on
\* Proceed); otherwise the selection is written and saved once more.
SelectCompareStep ==
    /\ op.name = "selectModel" /\ op.pc = "compare"
    /\ LET currentDimensions == ModelDimensions(model)
       IN  IF ModelDimensions(op.m) # currentDimensions
           THEN /\ op' = [Log(op, "modal") EXCEPT !.pc = "modal", !.modals = op.modals + 1,
                                                  !.sdims = ModelDimensions(op.m)]
                /\ UNCHANGED model
           ELSE /\ op' = [op EXCEPT !.pc = "close2"]
                /\ model' = op.m
    /\ UNCHANGED <<dimensions, ready, db, saved, objects>>

NextSettings ==
    \/ Return
    \/ \E fail \in InitFailures : InitializePGlite(fail)
    \/ StartCreateVectorTable
    \/ \E fail \in {"none", "drop", "create"} : RecreateStep(fail)
    \/ \E f \in BOOLEAN : ResaveStep(f)
    \/ \E c \in Contents : StartInsertContent(c)
    \/ \E len \in EmbeddingLengths, f \in BOOLEAN : EmbedStep(len, f)
    \/ \E f \in BOOLEAN : InsertStep(f)
    \/ \E f \in BOOLEAN : SaveStep(f)
    \/ \E m \in ModelNames : StartSelectModel(m)
    \/ \E sf, cf \in BOOLEAN : SelectCloseStep(sf, cf)
    \/ \E fail \in InitFailures : SelectInitStep(fail)
    \/ SelectCompareStep

SpecSettings == Init /\ [][NextSettings]_vars

\* ============================================ calls interleaved at awaits
\* Here every await of the code is a point at which another call may run.
\* A provider object is ready (pgClient set and isInitialized, which the code
\* sets and clears together) or not, and holds the table of its database
\* instance and the number of times that table was recreated by force; a call
\* is named by its kind and a number.

\* Most saveSettings(true) calls, and most insert commands, in flight at once;
\* most updateEmbeddingModel calls made one after the other.
MaxSettingsCalls == 2

MaxInsertCalls == 2

MaxUpdateCalls == 2

NoStore == [p |-> 0, dimensions |-> NoDims]

\* new PGliteProvider(plugin, databaseName)
NewProviderObject == [ready |-> FALSE, db |-> AbsentTable, gen |-> 0]

\* PGliteProvider.isReady() of provider i; null is not ready.
isReady(i) == i # 0 /\ providers[i].ready

\* The table of provider i's database.
TableOf(i) == IF i = 0 THEN AbsentTable ELSE providers[i].db

\* A call that has not started: no locals yet.
NewCall ==
    [pc |-> "idle", p |-> 0, buf |-> AbsentTable, ret |-> "", m |-> "", content |-> "",
     id |-> 0, gen |-> 0, at |-> 0, wasReady |-> FALSE, outcome |-> ""]

Done(r, outcome) == [r EXCEPT !.pc = "done", !.outcome = outcome, !.buf = AbsentTable]

\* The calls that are under way.
Running == {c \in DOMAIN calls : calls[c].pc \notin {"idle", "done"}}

\* initializePGlite of the plugin that keeps a vector store (main.ts 127-164)
\* is the one run by these calls, "load" being that plugin's onload; the others
\* run main.ts 365-382.
KeepsVectorStore(c) == c[1] \in {"load", "updateEmbeddingModel"}

\* Where a call goes on when provider.close() has returned (it never throws).
AfterClose(c, r) ==
    IF c[1] = "onunload" THEN Done(r, "closed")
    ELSE [r EXCEPT !.pc = "reinit", !.buf = AbsentTable]

\* provider.close() on provider i, up to its first await: nothing without a
\* client; otherwise save() is entered, which awaits dumpDataDir.
EnterClose(c, r, i) ==
    IF ~isReady(i) THEN AfterClose(c, [r EXCEPT !.p = i])
    ELSE [r EXCEPT !.p = i, !.pc = "dump", !.ret = "clientClose"]

\* Where a call goes on when the save it awaits has thrown: inside close() the
\* error is caught and logged and close returns; in the confirmation callback
\* nobody handles it; in updateEmbeddingModel the catch falls back to close
\* and re-initialization of plugin.provider; a command shows it.
SaveThrows(c, r) ==
    IF r.ret = "clientClose" THEN AfterClose(c, r)
    ELSE IF r.ret = "retry" THEN Done(r, "unhandled")
    ELSE IF c[1] = "updateEmbeddingModel" THEN EnterClose(c, [r EXCEPT !.outcome = "error"], provider)
    ELSE Done(r, "error")

\* Where a call goes on when the save it awaits has returned: close() goes on
\* to close the client, the confirmation callback calls execute(editor) again
\* (a new model and a new store on plugin.provider), the others are done.
SaveReturns(c, r) ==
    IF r.ret = "clientClose" THEN [r EXCEPT !.pc = "clientClose", !.buf = AbsentTable]
    ELSE IF r.ret = "retry"
    THEN [r EXCEPT !.pc = "check", !.buf = AbsentTable, !.p = provider, !.m = createEmbeddingModel]
    ELSE Done(r, IF c[1] = "updateEmbeddingModel" THEN "updated" ELSE "inserted")

\* provider.save(): await this.pgClient.dumpDataDir('gzip').  The dump is of
\* the database as it is when the engine takes it; a closed instance throws.
DumpDataDir(c, fail) ==
    /\ calls[c].pc = "dump"
    /\ LET r == calls[c]
       IN  calls' = [calls EXCEPT ![c] =
                IF fail \/ ~isReady(r.p) THEN SaveThrows(c, r)
                ELSE [r EXCEPT !.pc = "write", !.buf = providers[r.p].db]]
    /\ UNCHANGED <<model, dimensions, ready, db, saved, op, providers, provider, vectorStore>>

\* provider.save(): await adapter.writeBinary(dbPath, dump)
WriteBinary(c, fail) ==
    /\ calls[c].pc = "write"
    /\ LET r == calls[c]
       IN  /\ calls' = [calls EXCEPT ![c] = IF fail THEN SaveThrows(c, r) ELSE SaveReturns(c, r)]
           /\ saved' = IF fail THEN saved ELSE r.buf
    /\ UNCHANGED <<model, dimensions, ready, db, op, providers, provider, vectorStore>>

\* provider.close(): await this.pgClient.close(), then the client is released
\* and isInitialized cleared; a failure (or a client already released by
\* another close) is caught and logged, and the provider stays as it is.
ClientClose(c, fail) ==
    /\ calls[c].pc = "clientClose"
    /\ LET r == calls[c]
       IN  /\ calls' = [calls EXCEPT ![c] = AfterClose(c, r)]
           /\ providers' = IF fail \/ ~isReady(r.p) THEN providers
                           ELSE [providers EXCEPT ![r.p] = NewProviderObject]
    /\ UNCHANGED <<model, dimensions, ready, db, saved, op, provider, vectorStore>>

\* initializePGlite(), up to its first await: this.provider = new
\* PGliteProvider(...), and initialize() is entered on it.
NewProvider(c) ==
    /\ calls[c].pc = "reinit"
    /\ providers' = Append(providers, NewProviderObject)
    /\ provider' = Len(providers) + 1
    /\ calls' = [calls EXCEPT ![c] = [calls[c] EXCEPT !.pc = "load", !.p = Len(providers) + 1]]
    /\ UNCHANGED <<model, dimensions, ready, db, saved, op, vectorStore>>

\* How a call ends when initialize() has thrown: initializePGlite catches the
\* error and shows it; the failure is of loading the resources or the file
\* ("load"), of creating the instance ("create"), or of the directory step
\* that follows ("mkdir").
InitThrows(c, r, fail) ==
    Done(r, IF r.outcome = "error" THEN "error"
            ELSE IF fail = "mkdir" THEN "mkdirFailed" ELSE "initFailed")

\* initialize(): the resources are loaded and the database file, if any, is
\* read.
LoadDatabaseFile(c, fail) ==
    /\ calls[c].pc = "load"
    /\ LET r == calls[c]
       IN  calls' = [calls EXCEPT ![c] =
                IF fail THEN InitThrows(c, r, "load") ELSE [r EXCEPT !.pc = "create", !.buf = saved]]
    /\ UNCHANGED <<model, dimensions, ready, db, saved, op, providers, provider, vectorStore>>

\* Mutant of CreateInstance: the provider is marked ready although creating
\* the instance failed.
CreateInstance_ReadyOnFailure(c, fail) ==
    /\ calls[c].pc = "create"
    /\ fail \in {"none", "create", "mkdir"}
    /\ LET r == calls[c]
       IN  /\ providers' = [providers EXCEPT ![r.p] =
                                [NewProviderObject EXCEPT !.ready = TRUE, !.db = r.buf]]
           /\ calls' = [calls EXCEPT ![c] =
                IF fail # "none" THEN InitThrows(c, r, fail)
                ELSE Done(r, IF r.outcome = "error" THEN "error"
                             ELSE IF c[1] = "updateEmbeddingModel" THEN "updated" ELSE "initialized")]
           /\ vectorStore' = IF fail = "none" /\ KeepsVectorStore(c)
                             THEN [p |-> provider, dimensions |-> ModelDimensions(model)]
                             ELSE vectorStore
    /\ UNCHANGED <<model, dimensions, ready, db, saved, op, provider>>

\* initialize(): the instance is created from what was read, the provider
\* becomes ready, and the directory is looked at; initializePGlite of the
\* plugin that keeps a vector store then makes a new store on its provider.
CreateInstance(c, fail) ==
    /\ calls[c].pc = "create"
    /\ fail \in {"none", "create", "mkdir"}
    /\ LET r == calls[c]
       IN  /\ providers' = IF fail = "create" THEN providers
                           ELSE [providers EXCEPT ![r.p] = [NewProviderObject EXCEPT !.ready = TRUE, !.db = r.buf]]
           /\ calls' = [calls EXCEPT ![c] =
                IF fail # "none" THEN InitThrows(c, r, fail)
                ELSE Done(r, IF r.outcome = "error" THEN "error"
                             ELSE IF c[1] = "updateEmbeddingModel" THEN "updated" ELSE "initialized")]
           /\ vectorStore' = IF fail = "none" /\ KeepsVectorStore(c)
                             THEN [p |-> provider, dimensions |-> ModelDimensions(model)]
                             ELSE vectorStore
    /\ UNCHANGED <<model, dimensions, ready, db, saved, op, provider>>

\* store.save() of a call, up to its first await: it returns at once when its
\* provider is not ready, otherwise provider.save() is entered.
EnterStoreSave(c, r, ret) ==
    IF ~isReady(r.p) THEN SaveReturns(c, [r EXCEPT !.ret = ret])
    ELSE [r EXCEPT !.pc = "dump", !.ret = ret]

\* The note each insert command is run on.
ContentOf(c) == IF c[2] = 1 THEN "a" ELSE "b"

\* InsertNoteAsVectorCommand.execute(editor), up to its first await: the model
\* of the settings and a store on plugin.provider are made.
InsertNoteStart(c) ==
    /\ c[1] = "insertNote" /\ calls[c].pc = "idle"
    /\ calls' = [calls EXCEPT ![c] = [calls[c] EXCEPT !.pc = "check", !.p = provider,
                    !.m = createEmbeddingModel, !.content = ContentOf(c)]]
    /\ UNCHANGED <<model, dimensions, ready, db, saved, op, providers, provider, vectorStore>>

\* await checkTableCompatibility(model, store); its throw is caught and shown;
\* an incompatible answer opens the confirmation modal and returns.
CheckTable(c, queryFails) ==
    /\ calls[c].pc = "check"
    /\ LET r == calls[c]
           t == checkTableCompatibility(checkTableExists(isReady(r.p), TableOf(r.p), queryFails),
                                        ModelDimensions(r.m))
       IN  calls' = [calls EXCEPT ![c] =
                IF t.threw THEN Done(r, "error")
                ELSE [r EXCEPT !.pc = IF t.compatible THEN "embed" ELSE "modal",
                               !.gen = providers[r.p].gen]]
    /\ UNCHANGED <<model, dimensions, ready, db, saved, op, providers, provider, vectorStore>>

\* The modal's buttons: onConfirm(confirmed)
ConfirmModal(c, confirmed) ==
    /\ calls[c].pc = "modal"
    /\ calls' = [calls EXCEPT ![c] =
            IF confirmed THEN [calls[c] EXCEPT !.pc = "recreate"] ELSE Done(calls[c], "cancelled")]
    /\ UNCHANGED <<model, dimensions, ready, db, saved, op, providers, provider, vectorStore>>

\* The confirmation callback: await recreateVectorTable(vectorStore), up to
\* the save; a throw is a rejection nobody handles.
RecreateTable(c, fail) ==
    /\ calls[c].pc = "recreate"
    /\ fail \in CreateFailures(TRUE)
    /\ LET r == calls[c]
           t == recreateVectorTable(isReady(r.p), TableOf(r.p), ModelDimensions(r.m), fail)
       IN  /\ providers' = IF ~isReady(r.p) THEN providers
                           ELSE [providers EXCEPT ![r.p].db = t.db,
                                    ![r.p].gen = IF fail = "drop" THEN @ ELSE @ + 1]
           /\ calls' = [calls EXCEPT ![c] =
                    IF t.ok THEN EnterStoreSave(c, r, "retry") ELSE Done(r, "unhandled")]
    /\ UNCHANGED <<model, dimensions, ready, db, saved, op, provider, vectorStore>>

\* insertContentAsVector: await model.generateEmbedding(content)
GenerateEmbedding(c, fail) ==
    /\ calls[c].pc = "embed"
    /\ calls' = [calls EXCEPT ![c] =
            IF fail THEN Done(calls[c], "error") ELSE [calls[c] EXCEPT !.pc = "insert"]]
    /\ UNCHANGED <<model, dimensions, ready, db, saved, op, providers, provider, vectorStore>>

\* Mutant of InsertVector: the id is returned but the row is not stored.
InsertVector_NotStored(c, fail) ==
    /\ calls[c].pc = "insert"
    /\ LET r == calls[c]
           t == insertVector(isReady(r.p), TableOf(r.p), r.content,
                             [len |-> ModelDimensions(r.m), of |-> r.content], fail)
       IN  /\ providers' = providers
           /\ calls' = [calls EXCEPT ![c] =
                    IF t.ok THEN EnterStoreSave(c, [r EXCEPT !.id = t.id, !.at = providers[r.p].gen],
                                                "report")
                    ELSE Done(r, "error")]
    /\ UNCHANGED <<model, dimensions, ready, db, saved, op, provider, vectorStore>>

\* insertContentAsVector: await store.insertVector(content, vector), up to the
\* save; a throw is caught by the command and shown.
InsertVector(c, fail) ==
    /\ calls[c].pc = "insert"
    /\ LET r == calls[c]
           t == insertVector(isReady(r.p), TableOf(r.p), r.content,
                             [len |-> ModelDimensions(r.m), of |-> r.content], fail)
       IN  /\ providers' = IF ~isReady(r.p) THEN providers
                           ELSE [providers EXCEPT ![r.p].db = t.db]
           /\ calls' = [calls EXCEPT ![c] =
                    IF t.ok THEN EnterStoreSave(c, [r EXCEPT !.id = t.id, !.at = providers[r.p].gen],
                                                "report")
                    ELSE Done(r, "error")]
    /\ UNCHANGED <<model, dimensions, ready, db, saved, op, provider, vectorStore>>

\* The settings tab is there: onload has returned and onunload has not begun.
TabOpen ==
    \A c \in DOMAIN calls :
        /\ c[1] \in {"onload", "load"} => calls[c].pc = "done"
        /\ c[1] = "onunload" => calls[c].pc = "idle"

\* onload(): await this.loadSettings(), before initializePGlite()
OnloadStart(c) ==
    /\ c[1] \in {"onload", "load"} /\ calls[c].pc = "idle"
    /\ calls' = [calls EXCEPT ![c] = [calls[c] EXCEPT !.pc = "reinit"]]
    /\ UNCHANGED <<model, dimensions, ready, db, saved, op, providers, provider, vectorStore>>

\* saveSettings(true), up to await this.saveData(this.settings)
SaveSettingsStart(c) ==
    /\ c[1] = "saveSettings" /\ calls[c].pc = "idle"
    /\ TabOpen
    /\ calls' = [calls EXCEPT ![c] = [calls[c] EXCEPT !.pc = "saveData"]]
    /\ UNCHANGED <<model, dimensions, ready, db, saved, op, providers, provider, vectorStore>>

\* saveSettings(true): if (reinitialize && this.provider) await
\* this.provider.close()
SaveDataReturns(c) ==
    /\ c[1] = "saveSettings" /\ calls[c].pc = "saveData"
    /\ calls' = [calls EXCEPT ![c] =
            IF provider = 0 THEN Done(calls[c], "saved") ELSE EnterClose(c, calls[c], provider)]
    /\ UNCHANGED <<model, dimensions, ready, db, saved, op, providers, provider, vectorStore>>

\* onunload(): if (this.provider) await this.provider.close()
OnunloadStart(c) ==
    /\ c[1] = "onunload" /\ calls[c].pc = "idle"
    /\ \E o \in DOMAIN calls : o[1] \in {"onload", "load"} /\ calls[o].pc # "idle"
    /\ calls' = [calls EXCEPT ![c] =
            IF provider = 0 THEN Done(calls[c], "closed") ELSE EnterClose(c, calls[c], provider)]
    /\ UNCHANGED <<model, dimensions, ready, db, saved, op, providers, provider, vectorStore>>

\* The calls of the plugin's life: its load, its unload, and the
\* saveSettings(true) calls of the settings tab.
LifecycleCalls ==
    {<<"onload", 1>>, <<"onunload", 1>>} \cup ({"saveSettings"} \X (1..MaxSettingsCalls))

InitLifecycle ==
    /\ model = DefaultModel
    /\ dimensions = ModelDimensions(DefaultModel)
    /\ ready = FALSE
    /\ db = AbsentTable
    /\ saved \in {AbsentTable, EmptyTable(ModelDimensions(DefaultModel))}
    /\ op = NewOp("none")
    /\ providers = <<>>
    /\ provider = 0
    /\ vectorStore = NoStore
    /\ calls = [c \in LifecycleCalls |-> NewCall]

NextLifecycle ==
    \/ \E c \in DOMAIN calls : OnloadStart(c)
    \/ \E c \in DOMAIN calls : SaveSettingsStart(c)
    \/ \E c \in DOMAIN calls : SaveDataReturns(c)
    \/ \E c \in DOMAIN calls : OnunloadStart(c)
    \/ \E c \in DOMAIN calls, f \in BOOLEAN : DumpDataDir(c, f)
    \/ \E c \in DOMAIN calls, f \in BOOLEAN : WriteBinary(c, f)
    \/ \E c \in DOMAIN calls, f \in BOOLEAN : ClientClose(c, f)
    \/ \E c \in DOMAIN calls : NewProvider(c)
    \/ \E c \in DOMAIN calls, f \in BOOLEAN : LoadDatabaseFile(c, f)
    \/ \E c \in DOMAIN calls, f \in {"none", "create", "mkdir"} : CreateInstance(c, f)

SpecLifecycle == InitLifecycle /\ [][NextLifecycle]_vars

\* Insert commands racing with each other and with a settings change.
RaceCalls == ({"insertNote"} \X (1..MaxInsertCalls)) \cup {<<"saveSettings", 1>>}

\* Insert commands racing with each other only.
InsertCalls == {"insertNote"} \X (1..MaxInsertCalls)

\* The tables the database may hold when the race begins: none, an empty one
\* of either width, or one of the selected model's width with a row.
RaceTables ==
    {AbsentTable} \cup {EmptyTable(n) : n \in DimensionValues}
    \cup {InsertRow(EmptyTable(ModelDimensions(DefaultModel)), "c",
                    [len |-> ModelDimensions(DefaultModel), of |-> "c"])}

\* The plugin is loaded: its provider is ready on the database of the file.
InitRace ==
    /\ model = DefaultModel
    /\ dimensions = ModelDimensions(DefaultModel)
    /\ ready = FALSE
    /\ db = AbsentTable
    /\ saved \in RaceTables
    /\ op = NewOp("none")
    /\ providers = <<[NewProviderObject EXCEPT !.ready = TRUE, !.db = saved]>>
    /\ provider = 1
    /\ vectorStore = NoStore
    /\ calls = [c \in RaceCalls |-> NewCall]

NextRace ==
    \/ \E c \in DOMAIN calls : InsertNoteStart(c)
    \/ \E c \in DOMAIN calls, f \in BOOLEAN : CheckTable(c, f)
    \/ \E c \in DOMAIN calls, b \in BOOLEAN : ConfirmModal(c, b)
    \/ \E c \in DOMAIN calls, f \in CreateFailures(TRUE) : RecreateTable(c, f)
    \/ \E c \in DOMAIN calls, f \in BOOLEAN : GenerateEmbedding(c, f)
    \/ \E c \in DOMAIN calls, f \in BOOLEAN : InsertVector(c, f)
    \/ \E c \in DOMAIN calls : SaveSettingsStart(c)
    \/ \E c \in DOMAIN calls : SaveDataReturns(c)
    \/ \E c \in DOMAIN calls, f \in BOOLEAN : DumpDataDir(c, f)
    \/ \E c \in DOMAIN calls, f \in BOOLEAN : WriteBinary(c, f)
    \/ \E c \in DOMAIN calls, f \in BOOLEAN : ClientClose(c, f)
    \/ \E c \in DOMAIN calls : NewProvider(c)
    \/ \E c \in DOMAIN calls, f \in BOOLEAN : LoadDatabaseFile(c, f)
    \/ \E c \in DOMAIN calls, f \in {"none", "create", "mkdir"} : CreateInstance(c, f)

SpecRace == InitRace /\ [][NextRace]_vars

InitInserts ==
    /\ model = DefaultModel
    /\ dimensions = ModelDimensions(DefaultModel)
    /\ ready = FALSE
    /\ db = AbsentTable
    /\ saved \in RaceTables
    /\ op = NewOp("none")
    /\ providers = <<[NewProviderObject EXCEPT !.ready = TRUE, !.db = saved]>>
    /\ provider = 1
    /\ vectorStore = NoStore
    /\ calls = [c \in InsertCalls |-> NewCall]

NextInserts ==
    \/ \E c \in DOMAIN calls : InsertNoteStart(c)
    \/ \E c \in DOMAIN calls, f \in BOOLEAN : CheckTable(c, f)
    \/ \E c \in DOMAIN calls, b \in BOOLEAN : ConfirmModal(c, b)
    \/ \E c \in DOMAIN calls, f \in CreateFailures(TRUE) : RecreateTable(c, f)
    \/ \E c \in DOMAIN calls, f \in BOOLEAN : GenerateEmbedding(c, f)
    \/ \E c \in DOMAIN calls, f \in BOOLEAN : InsertVector(c, f)
    \/ \E c \in DOMAIN calls, f \in BOOLEAN : DumpDataDir(c, f)
    \/ \E c \in DOMAIN calls, f \in BOOLEAN : WriteBinary(c, f)

SpecInserts == InitInserts /\ [][NextInserts]_vars

\* ------------------------------- the plugin that keeps a vector store
\* updateEmbeddingModel(modelName), up to await this.saveSettings(false); the
\* calls are made one after the other.
UpdateStart(c, modelName) ==
    /\ c[1] = "updateEmbeddingModel" /\ calls[c].pc = "idle"
    /\ TabOpen /\ Running = {}
    /\ model' = modelName
    /\ calls' = [calls EXCEPT ![c] = [calls[c] EXCEPT !.pc = "saveData", !.m = modelName,
                    !.wasReady = isReady(provider)]]
    /\ UNCHANGED <<dimensions, ready, db, saved, op, providers, provider, vectorStore>>

\* if (this.provider && this.provider.isReady() && this.vectorStore): the
\* store takes the new dimensions and createTable(true) is entered; else a
\* full initialization.
UpdateTest(c) ==
    /\ c[1] = "updateEmbeddingModel" /\ calls[c].pc = "saveData"
    /\ IF isReady(provider) /\ vectorStore.p # 0
       THEN /\ vectorStore' = [vectorStore EXCEPT !.dimensions = ModelDimensions(calls[c].m)]
            /\ calls' = [calls EXCEPT ![c] = [calls[c] EXCEPT !.pc = "update", !.p = vectorStore.p]]
       ELSE /\ vectorStore' = vectorStore
            /\ calls' = [calls EXCEPT ![c] = [calls[c] EXCEPT !.pc = "reinit"]]
    /\ UNCHANGED <<model, dimensions, ready, db, saved, op, providers, provider>>

\* await this.vectorStore.createTable(true), up to the save; a throw is caught:
\* the error is shown, plugin.provider is closed and initializePGlite run.
UpdateRecreate(c, fail) ==
    /\ calls[c].pc = "update"
    /\ fail \in CreateFailures(TRUE)
    /\ LET r == calls[c]
           t == createTable(isReady(r.p), TableOf(r.p), vectorStore.dimensions, TRUE, fail)
       IN  /\ providers' = IF ~isReady(r.p) THEN providers
                           ELSE [providers EXCEPT ![r.p].db = t.db,
                                    ![r.p].gen = IF fail = "drop" THEN @ ELSE @ + 1]
           /\ calls' = [calls EXCEPT ![c] =
                    IF t.ok THEN EnterStoreSave(c, r, "report")
                    ELSE EnterClose(c, [r EXCEPT !.outcome = "error"], provider)]
    /\ UNCHANGED <<model, dimensions, ready, db, saved, op, provider, vectorStore>>

PluginCalls == {<<"load", 1>>} \cup ({"updateEmbeddingModel"} \X (1..MaxUpdateCalls))

InitPlugin ==
    /\ model = DefaultModel
    /\ dimensions = ModelDimensions(DefaultModel)
    /\ ready = FALSE
    /\ db = AbsentTable
    /\ saved \in RaceTables
    /\ op = NewOp("none")
    /\ providers = <<>>
    /\ provider = 0
    /\ vectorStore = NoStore
    /\ calls = [c \in PluginCalls |-> NewCall]

NextPlugin ==
    \/ \E c \in DOMAIN calls : OnloadStart(c)
    \/ \E c \in DOMAIN calls, m \in ModelNames : UpdateStart(c, m)
    \/ \E c \in DOMAIN calls : UpdateTest(c)
    \/ \E c \in DOMAIN calls, f \in CreateFailures(TRUE) : UpdateRecreate(c, f)
    \/ \E c \in DOMAIN calls, f \in BOOLEAN : DumpDataDir(c, f)
    \/ \E c \in DOMAIN calls, f \in BOOLEAN : WriteBinary(c, f)
    \/ \E c \in DOMAIN calls, f \in BOOLEAN : ClientClose(c, f)
    \/ \E c \in DOMAIN calls : NewProvider(c)
    \/ \E c \in DOMAIN calls, f \in BOOLEAN : LoadDatabaseFile(c, f)
    \/ \E c \in DOMAIN calls, f \in {"none", "create", "mkdir"} : CreateInstance(c, f)

SpecPlugin == InitPlugin /\ [][NextPlugin]_vars

\* ================================================================ claims
\* C1: in the insert-note flow, once the compatibility check has answered
\* incompatible (the table is present with a width other than the model's),
\* nothing is inserted, dropped or saved until the user presses Proceed: the
\* flow waits in the modal or has ended cancelled, and the table, its rows and
\* the database file are those the command started from.
C1_NoChangeUntilConfirmed ==
    (op.name = "insertNote" /\ ~op.compat.compatible /\ ~Has(op.trace, "proceed")) =>
        /\ op.pc \in {"modal", "done"}
        /\ op.pc = "done" => op.outcome = "cancelled" /\ LastEvent(op.trace) = "cancel"
        /\ op.pre.db.exists /\ op.pre.db.width # ModelDimensions(op.m)
        /\ db = op.pre.db
        /\ saved = op.pre.saved
        /\ ~Has(op.trace, "insertVector") /\ ~Has(op.trace, "createTable")

\* C1 witness: a cancelled insert against a stale table that holds a row.
C1_Witness ==
    /\ op.name = "insertNote" /\ op.pc = "done" /\ op.outcome = "cancelled"
    /\ Len(db.rows) >= 1
    /\ db.width # ModelDimensions(model)

\* C2: insertVector is never executed while the table is present with a width
\* other than the active model's dimensions (op.stale records, at the moment
\* insertVector runs, that it was).
C2_NoInsertIntoStaleTable == ~op.stale

\* The insert-note flow has gone through a confirmed recreation and ended
\* with every step succeeding.
ConfirmedAndDone ==
    /\ op.name = "insertNote" /\ op.pc = "done" /\ op.outcome = "ok"
    /\ Has(op.trace, "proceed")

CreateTableReturned == op.name = "createTable" /\ op.pc = "done" /\ op.outcome = "ok"

\* C4: after any successful createTable, force or not, the store's in-memory
\* dimensions equal the width of the physical table's embedding column.
C4_DimensionsEqualPhysicalWidth ==
    CreateTableReturned => db.exists /\ dimensions = db.width

\* A forced createTable has just succeeded, on the long-lived store or on the
\* store of a command; ForcedDims is the dimension that store was configured to.
ForcedCreateReturned ==
    \/ CreateTableReturned /\ op.force
    \/ op.name \in {"insertNote", "createVectorTable"} /\ op.pc = "resave"

ForcedDims == IF op.name = "createTable" THEN dimensions ELSE op.sdims

InsertEvents ==
    LET tr == op.trace
        last == IF Has(tr, "checkCompatibility")
                THEN CHOOSE i \in 1..Len(tr) :
                        tr[i] = "checkCompatibility" /\ \A j \in (i + 1)..Len(tr) : tr[j] # "checkCompatibility"
                ELSE 0
    IN  SubSeq(tr, last + 1, Len(tr))

\* The call is in, or has ended in, the insertion proper.
InInsertion ==
    /\ op.name \in {"insertNote", "insertContent"}
    /\ ~op.compat.threw
    /\ op.pc \in {"embed", "insert", "save"} \/ (op.pc = "done" /\ op.outcome \in {"ok", "error"})

\* The table and the file when the insertion proper started.
InsertionStartDb == IF Has(op.trace, "proceed") THEN EmptyTable(op.sdims) ELSE op.pre.db

InsertionStartSaved == IF Has(op.trace, "proceed") THEN EmptyTable(op.sdims) ELSE op.pre.saved

\* C6: the insertion runs generateEmbedding, insertVector, save, return in
\* that order; save is not run before insertVector has completed, and a failed
\* generateEmbedding or insertVector ends the call with no later insert and
\* no save.
C6_InsertionOrder ==
    InInsertion =>
        LET ev == InsertEvents
            inserted == InsertRow(InsertionStartDb, op.content, op.vec)
        IN  \/ ev = <<>> /\ op.pc = "embed"
               /\ db = InsertionStartDb /\ saved = InsertionStartSaved
            \/ ev = <<"generateEmbedding">> /\ op.pc = "insert"
               /\ db = InsertionStartDb /\ saved = InsertionStartSaved
            \/ ev = <<"generateEmbedding", "insertVector">> /\ op.pc = "save"
               /\ db = inserted /\ saved = InsertionStartSaved
            \/ ev = <<"generateEmbedding", "insertVector", "save", "return">>
               /\ op.pc = "done" /\ op.outcome = "ok"
               /\ db = inserted /\ saved = inserted
               /\ op.id = db.rows[Len(db.rows)].id
            \/ ev = <<"generateEmbedding!">> /\ op.pc = "done" /\ op.outcome = "error"
               /\ db = InsertionStartDb /\ saved = InsertionStartSaved
            \/ ev = <<"generateEmbedding", "insertVector!">> /\ op.pc = "done" /\ op.outcome = "error"
               /\ db = InsertionStartDb /\ saved = InsertionStartSaved
            \/ ev = <<"generateEmbedding", "insertVector", "save!">>
               /\ op.pc = "done" /\ op.outcome = "error"
               /\ db = inserted /\ saved = InsertionStartSaved

\* C6 witness: an insertion that ran to its end on a table that already held
\* a row and had unsaved state to tell the save by.
C6_Witness ==
    /\ InInsertion /\ op.pc = "done" /\ op.outcome = "ok"
    /\ Len(db.rows) >= 2
    /\ op.pre.saved # op.pre.db

\* C7: with no table, the compatibility check answers compatible = true and
\* no tableDimensions, whatever the model's dimensions; so it does for a table
\* that exists with no discoverable dimension.
C7_CompatibleWhenNothingToCompare ==
    /\ (op.name = "checkCompatibility" /\ ready /\ ~db.exists) =>
            op.compat = Compat(TRUE, NoDims, ModelDimensions(model))
    /\ (op.name = "insertNote" /\ LastEvent(op.trace) = "checkCompatibility" /\ ~db.exists) =>
            /\ op.pc = "embed"
            /\ op.compat = Compat(TRUE, NoDims, ModelDimensions(op.m))
    /\ \A m \in ModelNames :
            checkTableCompatibility(TableInfo(TRUE, NoDims), ModelDimensions(m))
                = Compat(TRUE, NoDims, ModelDimensions(m))

\* C7 witness: the check ran with no table under the model that is not the
\* default one.
C7_Witness ==
    /\ op.name = "checkCompatibility" /\ ready /\ ~db.exists
    /\ model # DefaultModel
    /\ op.compat.compatible

\* The answer the compatibility check owes for a present table of width
\* db.width and a model of dimensions n.
ExpectedCompat(n) ==
    Compat(db.width = n, db.width, n)

Incompatible ==
    ~checkTableCompatibility(checkTableExists(ready, db, FALSE), ModelDimensions(model)).compatible

\* The step is a call of setDimensions, changeModel or changeEmbeddingModel.
ModelChangeStep ==
    Idle /\ op'.name \in {"setDimensions", "changeModel", "changeEmbeddingModel"}

\* The step runs createTable(force=true), on the store or within a command.
ForcedCreateStep ==
    \/ Idle /\ op'.name = "createTable" /\ op'.force
    \/ op.pc = "recreate"

\* The step closes or opens a connection (close, saveSettings, initializePGlite).
LifecycleStep == op'.name \in {"close", "saveSettings", "initializePGlite"}

\* C9: changing the model and setDimensions leave the table (existence,
\* width, rows) and the file as they are; a change to a model whose dimensions
\* differ from a present table's width leaves checkCompatibility answering
\* incompatible, and while the model stays the same and the connection is the
\* same only a run of createTable(force=true) ends that.
C9_ModelChangeLeavesTableStale ==
    [][ /\ ModelChangeStep => (db' = db /\ saved' = saved)
        /\ (Idle /\ op'.name = "changeModel") =>
                (model' = op'.m /\ dimensions' = ModelDimensions(model'))
        /\ (ModelChangeStep /\ db.exists /\ db.width # ModelDimensions(model')) => Incompatible'
        /\ (Incompatible /\ ~Incompatible' /\ ready' /\ ~LifecycleStep) =>
                (model' # model \/ ForcedCreateStep) ]_vars

\* C9 witness: the model was changed to one of other dimensions over a table
\* that holds a row.
C9_Witness ==
    /\ op.name = "changeModel" /\ op.report.dimensionsChanged
    /\ db.exists /\ Len(db.rows) >= 1 /\ db.width # ModelDimensions(model)

\* C10: after createTable(force=true), whatever rows were there, the table is
\* present and empty, and searchSimilar returns the empty result for every
\* query vector and limit.
C10_ForcedCreateClearsRows ==
    /\ ForcedCreateReturned =>
            /\ db.exists /\ db.rows = <<>>
            /\ \A q \in QueryVectors, limit \in 1..MaxLimit :
                    SearchAccepted(db, q) /\ searchSimilar(db, q, limit) = {<<>>}
    /\ (op.name = "searchSimilar" /\ db.exists /\ db.rows = <<>>) =>
            op.outcome = "ok" /\ op.results = <<>>

\* C10 witness: the forced createTable ran on a table holding two rows.
C10_Witness ==
    /\ CreateTableReturned /\ op.force
    /\ Len(op.pre.db.rows) >= 2

\* C11: createTable(force=true) is idempotent: run once from any state of an
\* open connection, an absent table included, it returns without error and
\* leaves the empty table of the configured width; run again it returns
\* without error and leaves the very same table.
C11_ForcedCreateIdempotent ==
    /\ ready =>
         \A n \in DimensionValues :
            LET once == createTable(ready, db, n, TRUE, "none")
                twice == createTable(ready, once.db, n, TRUE, "none")
            IN  /\ once.ok /\ once.db = EmptyTable(n)
                /\ twice.ok /\ twice.db = once.db
    /\ (CreateTableReturned /\ op.force) => db = EmptyTable(dimensions)
    /\ (ForcedCreateReturned /\ op.name # "createTable") => db = EmptyTable(op.sdims)

\* C11 witness: the forced createTable that just returned was run on the
\* empty table a forced createTable leaves, and left it as it was.
C11_Witness ==
    /\ CreateTableReturned /\ op.force
    /\ op.pre.db = EmptyTable(dimensions)
    /\ db = op.pre.db

\* The insertion has run its insertVector step.
InsertVectorRan ==
    /\ InInsertion /\ Has(InsertEvents, "generateEmbedding") /\ op.pc # "insert"

\* C12: every stored record's embedding has the width of the table that holds
\* it, in the connection and in the file; insertVector with a vector of
\* another width is handed to the engine, which rejects it: the call ends in
\* an error and the table is as it was.
C12_StoredVectorsHaveTableWidth ==
    /\ \A i \in 1..Len(db.rows) : db.rows[i].embedding.len = db.width
    /\ \A i \in 1..Len(saved.rows) : saved.rows[i].embedding.len = saved.width
    /\ (InsertVectorRan /\ op.vec.len # InsertionStartDb.width) =>
            /\ op.pc = "done" /\ op.outcome = "error"
            /\ LastEvent(op.trace) = "insertVector!"
            /\ db = InsertionStartDb
    /\ ready =>
         \A vec \in QueryVectors, c \in Contents :
            vec.len # db.width =>
                insertVector(ready, db, c, vec, FALSE)
                    = [db |-> db, ok |-> FALSE, id |-> 0, queries |-> 1, notReady |-> FALSE]

\* C12 witness: the engine rejected a vector of another width than that of a
\* table holding a row.
C12_Witness ==
    /\ InsertVectorRan /\ ready /\ ~op.fault
    /\ db.exists /\ Len(db.rows) >= 1
    /\ op.vec.len # db.width
    /\ op.outcome = "error"

\* The embedding step returned a vector of another length than the model
\* declares, the insertVector step has run, and neither the backend, the
\* engine nor the file failed on its own account.
WrongLengthInserted ==
    /\ InsertVectorRan /\ ready /\ ~op.fault
    /\ op.vec.len # ModelDimensions(op.m)

SearchOnAbsentTable ==
    /\ op.name \in {"searchNote", "searchContent"}
    /\ op.pre.ready /\ ~op.pre.db.exists

\* C14: a search issued while the table is absent ends in the no-table
\* outcome; no embedding is generated, no similarity query is run, no
\* confirmation modal is opened, and nothing is created or saved.
C14_SearchWithoutTableIsNoTable ==
    SearchOnAbsentTable =>
        /\ op.pc = "done" => op.outcome = "noTable"
        /\ ~Has(op.trace, "generateEmbedding") /\ ~Has(op.trace, "generateEmbedding!")
        /\ ~Has(op.trace, "searchSimilar") /\ ~Has(op.trace, "searchSimilar!")
        /\ op.modals = 0
        /\ db = op.pre.db /\ saved = op.pre.saved

\* A call of searchSimilar (on the store, from the command or the service)
\* has just returned rows.
SearchReturned ==
    /\ op.name \in {"searchSimilar", "searchNote", "searchContent"}
    /\ op.pc = "done" /\ op.outcome = "ok"
    /\ LastEvent(op.trace) = "searchSimilar"

\* A table of six rows, one more than the default limit, and a query vector.
SixRows ==
    [exists |-> TRUE, width |-> 768, seq |-> 6,
     rows |-> [i \in 1..6 |-> [id |-> i, content |-> IF i % 2 = 0 THEN "a" ELSE "b",
                               embedding |-> [len |-> 768,
                                              of |-> IF i % 2 = 0 THEN "a" ELSE "b"]]]]

SixRowsQuery == [len |-> 768, of |-> "a"]

DefaultLimitResults == searchSimilarOutcomes(TRUE, SixRows, SixRowsQuery, NoLimit)

\* C15: searchSimilar(vector, limit) returns min(limit, number of rows)
\* records, limit being 5 when left out; they are rows of the table, each
\* once, with its distance to the query vector; no row left out is nearer
\* than a row returned; and they come by ascending distance.
C15_NearestRowsAscending ==
    /\ SearchReturned =>
         LET res == op.results
             k == Min(LimitOrDefault(op.limit), Len(db.rows))
         IN  /\ Len(res) = k
             /\ \A i \in 1..k :
                    \E r \in 1..Len(db.rows) :
                        res[i] = [id |-> db.rows[r].id, content |-> db.rows[r].content,
                                  distance |-> Distance(op.vec, db.rows[r].embedding)]
             /\ \A i, j \in 1..k : i # j => res[i].id # res[j].id
             /\ \A i, j \in 1..k : i < j => res[i].distance <= res[j].distance
             /\ \A r \in 1..Len(db.rows) :
                    (\A i \in 1..k : res[i].id # db.rows[r].id) =>
                        \A i \in 1..k : res[i].distance <= Distance(op.vec, db.rows[r].embedding)
    /\ \A o \in DefaultLimitResults :
            /\ o.ok /\ Len(o.rows) = 5
            /\ \A i \in 1..5 : o.rows[i].distance = IF i <= 3 THEN 0 ELSE 1

\* C15 witness: of two rows at different distances the one inserted last is
\* the nearer, and a search with limit 1 returned it.
C15_Witness ==
    /\ SearchReturned
    /\ Len(db.rows) = 2 /\ op.limit = 1
    /\ Distance(op.vec, db.rows[2].embedding) < Distance(op.vec, db.rows[1].embedding)
    /\ op.results = <<[id |-> db.rows[2].id, content |-> db.rows[2].content, distance |-> 0]>>

\* A call on the long-lived store was made while no connection was open.
StoreCallNotReady(name) == op.name = name /\ ~op.pre.ready

\* The call ended in the not-ready error and left everything as it was.
FailedClosed ==
    /\ op.pc = "done" /\ op.outcome = "error" /\ op.notReady
    /\ db = op.pre.db /\ saved = op.pre.saved /\ ready = op.pre.ready

\* C16: while no connection is open, checkTableExists, createTable,
\* insertVector and searchSimilar each throw the not-ready error without
\* issuing a query; checkTableExists does not answer {exists: false} then.
C16_NotReadyFailsClosed ==
    /\ ~ready =>
        /\ \A f \in BOOLEAN : checkTableExists(ready, db, f) = NotReadyThrown
        /\ \A n \in DimensionValues, force \in BOOLEAN, fail \in {"none", "drop", "create"} :
              createTable(ready, db, n, force, fail)
                  = [db |-> db, ok |-> FALSE, queries |-> 0, notReady |-> TRUE]
        /\ \A c \in Contents, vec \in QueryVectors, f \in BOOLEAN :
              insertVector(ready, db, c, vec, f)
                  = [db |-> db, ok |-> FALSE, id |-> 0, queries |-> 0, notReady |-> TRUE]
        /\ \A q \in QueryVectors, l \in Limits :
              searchSimilarOutcomes(ready, db, q, l)
                  = {[ok |-> FALSE, rows |-> <<>>, queries |-> 0, notReady |-> TRUE]}
    /\ StoreCallNotReady("checkTableExists") => FailedClosed /\ op.info.threw
    /\ StoreCallNotReady("createTable") => FailedClosed
    /\ StoreCallNotReady("searchSimilar") => FailedClosed /\ op.results = <<>>
    /\ (StoreCallNotReady("insertContent") /\ InsertVectorRan) =>
            FailedClosed /\ LastEvent(op.trace) = "insertVector!"
    /\ (StoreCallNotReady("checkCompatibility")
        \/ (StoreCallNotReady("searchNote") /\ op.pc # "exists")
        \/ (StoreCallNotReady("insertNote") /\ op.pc # "check")
        \/ (StoreCallNotReady("createVectorTable") /\ op.pc # "recreate")) => FailedClosed

\* C16 witness: checkTableExists was called after the connection was closed,
\* the file holding a table with a row.
C16_Witness ==
    /\ StoreCallNotReady("checkTableExists") /\ FailedClosed
    /\ saved.exists /\ Len(saved.rows) >= 1

\* C17: save() on a store whose connection is not open returns without error
\* and leaves the database file as it is, whether or not a write would fail.
C17_SaveNotReadyIsNoOp ==
    /\ ~ready => \A f \in BOOLEAN : save(ready, db, saved, f) = [file |-> saved, ok |-> TRUE]
    /\ StoreCallNotReady("save") =>
            /\ op.pc = "done" /\ op.outcome = "ok"
            /\ saved = op.pre.saved /\ db = op.pre.db /\ ready = op.pre.ready

\* C17 witness: save() returned on a closed connection and the file still
\* holds the table with its row.
C17_Witness ==
    /\ StoreCallNotReady("save") /\ op.outcome = "ok"
    /\ saved.exists /\ Len(saved.rows) >= 1 /\ saved # db

\* checkTableExists ran on an open connection and a catalogue query failed.
CatalogueQueryFailed(name) == op.name = name /\ op.pre.ready /\ op.qfail

\* C18: on an open connection, when a catalogue query of checkTableExists
\* fails, it answers {exists: false} instead of throwing, whatever table is
\* there, and changes nothing.
C18_InspectionFailureIsNoTable ==
    /\ ready => checkTableExists(ready, db, TRUE) = TableInfo(FALSE, NoDims)
    /\ CatalogueQueryFailed("checkTableExists") =>
            /\ op.info = TableInfo(FALSE, NoDims)
            /\ op.pc = "done" /\ op.outcome = "ok"
            /\ db = op.pre.db /\ saved = op.pre.saved /\ ready = op.pre.ready
            /\ model = op.pre.model /\ dimensions = op.pre.dimensions
    /\ CatalogueQueryFailed("checkCompatibility") =>
            op.outcome = "ok" /\ op.compat = Compat(TRUE, NoDims, ModelDimensions(model))
    /\ (CatalogueQueryFailed("searchNote") /\ op.pc # "exists") =>
            op.pc = "done" /\ op.outcome = "noTable" /\ db = op.pre.db

\* C18 witness: the failing inspection was of a present table holding a row.
C18_Witness ==
    /\ CatalogueQueryFailed("checkTableExists")
    /\ db.exists /\ Len(db.rows) >= 1
    /\ ~op.info.exists /\ op.outcome = "ok"

\* C19: a failure of the database, the embedding backend or the file that
\* occurs during a user operation reaches the caller or the user: no operation
\* ends with its failure left as a rejection nobody handles, or caught and
\* only logged (the fallback of checkTableExists apart).
C19_FailuresSurfaced ==
    op.pc = "done" => (op.outcome # "unhandled" /\ ~op.caught)

\* The operation has run createTable(force=true), to its end or not.
ForcedCreateRan ==
    \/ op.name = "createTable" /\ op.force
    \/ /\ op.name \in {"insertNote", "createVectorTable"}
       /\ Has(op.trace, "createTable") \/ Has(op.trace, "createTable!")

\* The table d1 still holds what the present table d0 held: same width, and
\* the rows of d0, unaltered, before any further row.
Preserved(d0, d1) ==
    d0.exists =>
        /\ d1.exists /\ d1.width = d0.width
        /\ Len(d1.rows) >= Len(d0.rows)
        /\ SubSeq(d1.rows, 1, Len(d0.rows)) = d0.rows

\* C20: from the start of an operation to any later point of it, the
\* connection being open at both, a present table keeps its width and its
\* rows unless the operation has run createTable(force=true).
C20_RowsOnlyRemovedByForcedCreate ==
    (op.pre.ready /\ ready /\ ~ForcedCreateRan) => Preserved(op.pre.db, db)

\* The call of changeModel or changeEmbeddingModel has returned its report.
ModelChangeReturned == op.name \in {"changeModel", "changeEmbeddingModel"} /\ op.pc = "done"

\* C23: the report of changeModel (and of changeEmbeddingModel) has
\* newDimensions = the new model's dimensions, dimensionsChanged true exactly
\* when the previous model's dimensions differ from them, and oldDimensions
\* present, as the previous model's dimensions, exactly when dimensionsChanged;
\* afterwards the store's dimensions are the new model's.
C23_ChangeReport ==
    ModelChangeReturned =>
        LET old == ModelDimensions(op.pre.model)
            new == ModelDimensions(op.m)
        IN  /\ op.outcome = "ok"
            /\ op.report.newDimensions = new
            /\ op.report.dimensionsChanged <=> (old # new)
            /\ (op.report.oldDimensions # NoDims) <=> op.report.dimensionsChanged
            /\ op.report.dimensionsChanged => op.report.oldDimensions = old
            /\ dimensions = new
            /\ op.name = "changeModel" => model = op.m

\* C23 witness: changeModel returned a report of changed dimensions.
C23_Witness ==
    /\ ModelChangeReturned /\ op.name = "changeModel"
    /\ op.report.dimensionsChanged /\ op.report.oldDimensions = 768
    /\ op.report.newDimensions = 384

\* The ids of the rows come in strictly increasing order.
IdsIncrease(rows) == \A i, j \in 1..Len(rows) : i < j => rows[i].id < rows[j].id

\* insertVector has just returned an id, or the call went on to its save.
InsertVectorReturned ==
    /\ InsertVectorRan
    /\ op.pc = "save" \/ (op.pc = "done" /\ Has(InsertEvents, "insertVector"))

\* C24: within one table the ids are pairwise distinct and strictly
\* increasing in insertion order (a recreated table starts over), and a
\* successful insertVector adds exactly one row, after those that were there,
\* which carries the given content and the returned id, larger than every id
\* of the table.
C24_IdsIncreaseOneRowPerInsert ==
    /\ IdsIncrease(db.rows) /\ IdsIncrease(saved.rows)
    /\ InsertVectorReturned =>
         LET before == InsertionStartDb.rows
         IN  /\ Len(db.rows) = Len(before) + 1
             /\ SubSeq(db.rows, 1, Len(before)) = before
             /\ db.rows[Len(db.rows)].content = op.content
             /\ db.rows[Len(db.rows)].id = op.id
             /\ \A i \in 1..Len(before) : before[i].id < op.id
    /\ ForcedCreateReturned => db.seq = 0

\* C24 witness: a second row was inserted and got a larger id than the first.
C24_Witness ==
    /\ InsertVectorReturned /\ op.outcome = "ok"
    /\ Len(db.rows) = 2 /\ op.id = 2 /\ db.rows[1].id = 1

\* The search command has opened the ResultsModal on its results.
ResultsShown == op.name = "searchNote" /\ op.pc = "done" /\ op.outcome = "ok"

\* C26: the results modal shows each result with the similarity
\* (1 - distance), as a percentage, in the order the store returned them: the
\* similarities shown never increase down the list, and the first row shown is
\* as similar to the query as the most similar record of the table.
C26_ShownBySimilarity ==
    ResultsShown =>
        /\ Len(op.shown) = Len(op.results)
        /\ \A i \in 1..Len(op.shown) :
                /\ op.shown[i].id = op.results[i].id
                /\ op.shown[i].similarity = (1 - op.results[i].distance) * 100
        /\ \A i, j \in 1..Len(op.shown) : i < j => op.shown[i].similarity >= op.shown[j].similarity
        /\ op.shown # <<>> =>
                \A k \in 1..Len(db.rows) :
                    op.shown[1].similarity >= (1 - Distance(op.vec, db.rows[k].embedding)) * 100
        /\ (op.shown = <<>>) <=> (db.rows = <<>>)

\* C26 witness: two results of different similarity are shown.
C26_Witness ==
    /\ ResultsShown /\ Len(op.shown) = 2
    /\ op.shown[1].similarity = 100 /\ op.shown[2].similarity = 0

\* A call of getConfigForModel has ended.
ConfigResolved == op.name \in {"getConfigForModel", "helpersGetConfigForModel"}

\* What makes a provider's configuration invalid: a required field (the API
\* key for OpenAI, the base URL for Ollama) missing or empty, or a base URL
\* that is given and is no well-formed URL.
InvalidConfig(prov, config) ==
    \/ prov = "openai" /\ config.apiKey = ""
    \/ prov = "ollama" /\ config.baseURL = ""
    \/ config.baseURL # "" /\ ~ParsesAsURL(config.baseURL)

\* C25: resolving the configuration for a model ends in a configuration
\* error, with no configuration returned (so that no model is constructed
\* from it), whenever the provider's configuration is invalid, and returns the
\* provider's configuration otherwise.
C25_InvalidConfigRejected ==
    ConfigResolved =>
        IF InvalidConfig(op.provider, op.config)
        THEN op.outcome = "error" /\ ~op.resolved.ok /\ op.resolved.errors # <<>>
        ELSE op.outcome = "ok" /\ op.resolved.ok /\ op.resolved.config = op.config

\* The insert-note command has ended by showing an error.
InsertReportedError == op.name = "insertNote" /\ op.pc = "done" /\ op.outcome = "error"

\* C30: an insert command that ends by reporting an error has added no row:
\* the rows of the table are those the command started from.
C30_FailedInsertAddsNoRow == InsertReportedError => db.rows = op.pre.db.rows

\* The handler of the model dropdown has returned after a selection of a
\* model whose dimensions differ from those of the model selected before.
SelectedOtherDimensions ==
    /\ op.name = "selectModel" /\ op.pc \in {"modal", "done"}
    /\ ModelDimensions(op.m) # ModelDimensions(op.pre.model)

\* C28: when the model selected in the settings tab has other dimensions than
\* the model selected before, the confirmation modal is opened, and the
\* handler itself leaves the recreation of the table to the modal's callback.
C28_ModalOnDimensionChange ==
    SelectedOtherDimensions => op.modals = 1 /\ op.pc = "modal"


\* The provider objects whose database instance is open.
OpenConnections == {i \in 1..Len(providers) : providers[i].ready}

\* The calls that are inside close() of provider i.
Closing(i) == {c \in Running : calls[c].p = i /\ calls[c].pc \in {"dump", "write", "clientClose"}}

\* C21: at any time at most one database connection is open, and every open
\* connection is the one plugin.provider refers to or is being closed
\* (none is left unreachable and unclosed), under every interleaving of
\* saveSettings(true) calls, the load and the unload.
C21_OneConnection ==
    /\ Cardinality(OpenConnections) <= 1
    /\ \A i \in OpenConnections : i = provider \/ Closing(i) # {}


\* The insert commands that reported "Note vector inserted with ID ...".
ReportedInserts == {c \in DOMAIN calls : c[1] = "insertNote" /\ calls[c].outcome = "inserted"}

\* Table d holds the row command c reported.
HoldsRowOf(d, c) ==
    \E k \in 1..Len(d.rows) : d.rows[k].id = calls[c].id /\ d.rows[k].content = calls[c].content

\* Command b has recreated the table by force, acting on a compatibility
\* check it made before the table was last recreated by another command.
RecreatedOnOldCheck(b) ==
    /\ b[1] = "insertNote"
    /\ calls[b].pc \in {"dump", "write"} /\ calls[b].ret = "retry"
    /\ providers[calls[b].p].gen > calls[b].gen + 1

\* C22: the check-then-act of the insert flow is not atomic: a command can
\* recreate the table on a check made before another command recreated it,
\* dropping a row the other already reported (the witness); and that is the
\* only way a reported row leaves the open table: while its provider is
\* open, a reported row is in the table unless the table was recreated by
\* force after the insertion.
C22_RowLostOnlyToRecreation ==
    \A c \in ReportedInserts :
        isReady(calls[c].p) =>
            \/ HoldsRowOf(TableOf(calls[c].p), c)
            \/ providers[calls[c].p].gen > calls[c].at

C22_Witness ==
    \E a \in ReportedInserts, b \in DOMAIN calls :
        /\ a # b /\ calls[a].p = calls[b].p /\ isReady(calls[a].p)
        /\ RecreatedOnOldCheck(b)
        /\ calls[a].at > calls[b].gen
        /\ ~HoldsRowOf(TableOf(calls[a].p), a)


\* The other insert commands have not been run.
OnlyInsert(c) == \A o \in DOMAIN calls : o[1] = "insertNote" /\ o # c => calls[o].pc = "idle"

\* C29: once nothing is in flight any more, the row of an insert command that
\* reported success is in the database file, however the command interleaved
\* with a settings change that closes and re-initializes the provider.
C29_ReportedInsertPersisted ==
    \A c \in ReportedInserts : Running = {} /\ OnlyInsert(c) => HoldsRowOf(saved, c)


\* The updateEmbeddingModel calls that have returned after showing "Updated
\* embedding model to ...", made while the provider was ready.
UpdatedWhileReady ==
    {c \in DOMAIN calls : /\ c[1] = "updateEmbeddingModel" /\ calls[c].wasReady
                          /\ calls[c].pc = "done" /\ calls[c].outcome = "updated"}

\* C27: when updateEmbeddingModel(modelName), called while the provider is
\* ready, has returned, the table exists, is empty, has the width of the
\* newly selected model, and this state has been saved.
C27_UpdateRecreatesTable ==
    \A c \in UpdatedWhileReady :
        Running = {} /\ model = calls[c].m =>
            /\ isReady(provider)
            /\ TableOf(provider) = EmptyTable(ModelDimensions(model))
            /\ saved = EmptyTable(ModelDimensions(model))


\* The insert-note command, started on an open connection with no table, has
\* ended.
InsertWithoutTableEnded ==
    /\ op.name = "insertNote" /\ op.pc = "done"
    /\ op.pre.ready /\ ~op.pre.db.exists

\* C31: an insert command issued while the table is absent passes the
\* compatibility check (no modal) and does not create the table: it ends by
\* reporting an error, the table is still absent, no row exists, and nothing
\* was saved.
C31_InsertWithoutTableFails ==
    InsertWithoutTableEnded =>
        /\ op.compat.compatible /\ op.modals = 0
        /\ op.outcome = "error"
        /\ db = AbsentTable
        /\ saved = op.pre.saved
        /\ ~Has(op.trace, "save") /\ ~Has(op.trace, "save!")

\* C31 witness: the engine rejected the insertion into the absent table.
C31_Witness == InsertWithoutTableEnded /\ LastEvent(op.trace) = "insertVector!" /\ ~op.fault


\* PGliteProvider.close() has returned on a provider that was initialized.
CloseReturned == op.name = "close" /\ op.pc = "done" /\ op.pre.ready

\* C32: after close() returns on an initialized provider, isReady() is false
\* and the client is released, whether or not the save before closing
\* succeeded.
C32_NotReadyAfterClose == CloseReturned => ~ready /\ db = AbsentTable


\* saveSettings(true) has returned; it was called on an open connection and
\* close() met no failure.
SaveSettingsReturned ==
    /\ op.name = "saveSettings" /\ op.pc = "done"
    /\ op.pre.ready /\ ~op.caught

\* C33: close-then-initialize is a round trip: after saveSettings(true) on an
\* open connection (database name unchanged, no save failure) the file holds
\* the table as it was before, and the new connection, when initialize()
\* opened one, holds the same table: existence, width and rows.
C33_CloseInitializeRoundTrip ==
    SaveSettingsReturned =>
        /\ saved = op.pre.db
        /\ ready => db = op.pre.db
        /\ op.outcome = "ok" => ready

\* C33 witness: the table held a row the file did not have yet, and the
\* connection was re-opened.
C33_Witness ==
    /\ SaveSettingsReturned /\ op.outcome = "ok"
    /\ Len(op.pre.db.rows) > 0 /\ op.pre.saved # op.pre.db


\* A command has completed that started on an open connection whose database
\* matched the file, and no save of it failed.
CommandCompleted ==
    /\ op.pc = "done" /\ op.name \in {"createVectorTable", "insertNote", "searchNote"}
    /\ op.pre.ready /\ op.pre.saved = op.pre.db
    /\ ~Has(op.trace, "save!")

\* C34: whenever no command is in flight and no save has failed, the database
\* file equals the database in memory as far as the vector table goes: a
\* command that starts from equality ends in equality.
C34_SnapshotMatchesDatabase == CommandCompleted => ready /\ saved = db


\* createTable(false) has ended, successfully or not, on the long-lived store
\* with an open connection and a table present.
UnforcedCreateOnTable ==
    /\ op.name = "createTable" /\ op.pc = "done" /\ ~op.force
    /\ op.pre.ready /\ op.pre.db.exists

\* C35: createTable(force=false) on a present table is non-destructive: it
\* succeeds when its query does, whatever dimensions the store is configured
\* to, and leaves the table's width and rows as they were.
C35_UnforcedCreateKeepsTable ==
    /\ UnforcedCreateOnTable => db = op.pre.db
    /\ db.exists =>
           \A n \in DimensionValues :
               LET r == createTable(TRUE, db, n, FALSE, "none") IN r.ok /\ r.db = db

\* C35 witness: createTable(false) returned on a table holding a row, the
\* store being configured to another dimension than the table's width.
C35_Witness ==
    /\ UnforcedCreateOnTable /\ op.outcome = "ok"
    /\ Len(op.pre.db.rows) > 0 /\ dimensions # op.pre.db.width


\* A search is under way or has ended.
InSearch == op.name \in {"searchNote", "searchContent"}

\* C36: a search, whether it succeeds, finds no table or fails, changes
\* neither the table (existence, width, rows) nor the store's configured
\* dimension, and never writes the database file.
C36_SearchIsReadOnly ==
    InSearch =>
        /\ db = op.pre.db
        /\ dimensions = op.pre.dimensions
        /\ saved = op.pre.saved

\* C36 witness: a search command returned rows from a table the file does not
\* hold in this state.
C36_Witness ==
    /\ op.name = "searchNote" /\ op.pc = "done" /\ op.outcome = "ok"
    /\ Len(op.results) > 0 /\ saved # db


\* The calls whose initializePGlite has caught and shown a failure of loading
\* the resources or of creating the database.
InitFailedCalls == {c \in DOMAIN calls : calls[c].pc = "done" /\ calls[c].outcome = "initFailed"}

\* The saveSettings(true) calls that await saveData.
AwaitingSaveData == {c \in DOMAIN calls : c[1] = "saveSettings" /\ calls[c].pc = "saveData"}

\* C37: initializePGlite lets no failure escape: when loading the resources
\* or creating the database fails, the call ends with the error shown,
\* plugin.provider is a provider object (not null), the provider that failed
\* is not ready, the store operations on it throw, and a saveSettings(true)
\* that finds it goes on to initializePGlite again.
C37_FailedInitLeavesProviderNotReady ==
    \A c \in InitFailedCalls :
        /\ provider # 0
        /\ ~isReady(calls[c].p)
        /\ checkTableExists(isReady(calls[c].p), TableOf(calls[c].p), FALSE).threw
        /\ insertVector(isReady(calls[c].p), TableOf(calls[c].p), "a", NoVec, FALSE).notReady
        /\ provider = calls[c].p =>
               \A s \in AwaitingSaveData : EnterClose(s, calls[s], provider).pc = "reinit"

\* C37 witness: onload's initialization failed, and a later saveSettings(true)
\* has made a new provider and is initializing it.
C37_Witness ==
    /\ <<"onload", 1>> \in InitFailedCalls
    /\ \E s \in DOMAIN calls :
           /\ s[1] = "saveSettings" /\ calls[s].pc = "load"
           /\ calls[s].p = provider /\ provider > calls[<<"onload", 1>>].p


\* An insert-note or search-note command has ended: nothing of it is left to
\* run, and its notice object is out of reach.
NoticeCommandEnded == op.name \in {"insertNote", "searchNote"} /\ op.pc = "done"

\* C38: the persistent progress notice opened at the start of an insert or
\* search command is hidden on every path through the command, the paths on
\* which the operation throws included: when the command has ended the
\* notice is not on the screen.
C38_NoticeHidden == NoticeCommandEnded => ~op.notice

====
